---- MODULE Spec2Model ----
(***************************************************************************)
(* Model of the product-image pipeline of src/04_image_processing.js:      *)
(* combineAllImages (asset locator), processOpenAIOriginals (description   *)
(* stage), processReplicateWithFallback (resolution enhancer),             *)
(* processUnifiedWebPOptimization (compression/hosting finisher),          *)
(* analyzeImageSimple (orchestrator) and processSelectedImages (the sheet  *)
(* workflow that calls the orchestrator for every selected product).       *)
(*                                                                         *)
(* Strings are sequences of one-character strings, so that split, trim,    *)
(* startsWith and Set-deduplication are computed, not assumed.             *)
(***************************************************************************)
EXTENDS Integers, Sequences, FiniteSets, TLC

VARIABLES
  product,          \* the product record handed to analyzeImageSimple
  settings,         \* what getApiSettings() returns during the run
  pc,               \* position inside analyzeImageSimple
  allImageUrls,     \* analyzeImageSimple: const allImageUrls
  imagesToProcess,  \* analyzeImageSimple: const imagesToProcess
  allResults,       \* processOpenAIOriginals: allResults / analysisResults
  groupLog,         \* history: what each sub-batch attempt did
  enhancedImages,   \* processReplicateWithFallback: results
  finalResults,     \* the array analyzeImageSimple returns
  faults,           \* number of injected service failures so far
  sheet,            \* processSelectedImages: queue, statuses and stats
  args,             \* the arguments of a function applied on its own
  ret               \* what that function returned

vars == <<product, settings, pc, allImageUrls, imagesToProcess, allResults,
          groupLog, enhancedImages, finalResults, faults, sheet, args, ret>>

(***************************************************************************)
(* Bounds of the exploration.                                              *)
(***************************************************************************)
\* Service failures injected into one run of a batch longer than FullBatch.
MaxFaults == 2
\* Batches up to this length are explored with every combination of failures.
FullBatch == 2
\* Entries per source string in the asset-locator specification.
MaxEntries == 2

(***************************************************************************)
(* Strings                                                                 *)
(***************************************************************************)
\* "http" followed by one distinguishing character
Url(c) == <<"h", "t", "t", "p", c>>

IsSeparator(c) == c \in {",", "\n"}

IsSpace(c) == c \in {" ", "\t"}

RECURSIVE SplitFrom(_, _, _)
\* String.prototype.split(/[\n,]/): the pieces between separators, empty ones kept
SplitFrom(s, i, cur) ==
  IF i > Len(s) THEN <<cur>>
  ELSE IF IsSeparator(s[i]) THEN <<cur>> \o SplitFrom(s, i + 1, <<>>)
       ELSE SplitFrom(s, i + 1, Append(cur, s[i]))

Split(s) == SplitFrom(s, 1, <<>>)

RECURSIVE TrimLeft(_)
TrimLeft(s) == IF s # <<>> /\ IsSpace(Head(s)) THEN TrimLeft(Tail(s)) ELSE s

RECURSIVE TrimRight(_)
TrimRight(s) ==
  IF s # <<>> /\ IsSpace(s[Len(s)]) THEN TrimRight(SubSeq(s, 1, Len(s) - 1)) ELSE s

\* String.prototype.trim
Trim(s) == TrimRight(TrimLeft(s))

\* url.startsWith('http')
StartsWithHttp(s) == Len(s) >= 4 /\ SubSeq(s, 1, 4) = <<"h", "t", "t", "p">>

\* url => url && url.startsWith('http')
IsValidUrl(s) == s # <<>> /\ StartsWithHttp(s)

RECURSIVE FilterValid(_)
\* list.filter(url => url && url.startsWith('http'))
FilterValid(list) ==
  IF list = <<>> THEN <<>>
  ELSE IF IsValidUrl(Head(list)) THEN <<Head(list)>> \o FilterValid(Tail(list))
       ELSE FilterValid(Tail(list))

\* source.split(/[\n,]/).map(url => url.trim()).filter(url => url && url.startsWith('http'))
ParseUrls(source) ==
  LET pieces == Split(source)
  IN  FilterValid([i \in 1..Len(pieces) |-> Trim(pieces[i])])

RECURSIVE UniqueFrom(_, _)
\* [...new Set(list)]: first occurrences, in order
UniqueFrom(list, seen) ==
  IF list = <<>> THEN <<>>
  ELSE IF Head(list) \in seen THEN UniqueFrom(Tail(list), seen)
       ELSE <<Head(list)>> \o UniqueFrom(Tail(list), seen \cup {Head(list)})

UniqueKeepAll(list) == list

Unique(list) == UniqueFrom(list, {})

\* the three tiers mixed instead of short-circuited
CombineAllImagesMixed(originalImages, supplierImages, additionalImages) ==
  Unique(ParseUrls(additionalImages) \o ParseUrls(supplierImages)
         \o ParseUrls(originalImages))

\* combineAllImages(originalImages, supplierImages, additionalImages, article)
CombineAllImages(originalImages, supplierImages, additionalImages) ==
  LET tier1 == IF additionalImages # <<>> THEN ParseUrls(additionalImages) ELSE <<>>
      tier2 == IF tier1 = <<>> /\ supplierImages # <<>>
               THEN tier1 \o ParseUrls(supplierImages) ELSE tier1
      tier3 == IF tier2 = <<>> /\ originalImages # <<>>
               THEN tier2 \o ParseUrls(originalImages) ELSE tier2
  IN  Unique(tier3)

(***************************************************************************)
(* Program constants                                                       *)
(***************************************************************************)
\* analyzeImageSimple: allImageUrls.slice(0, 10)
MaxImages == 10
\* processOpenAIOriginals: const BATCH_SIZE = 5
BATCH_SIZE == 5
\* runAssistantAnalysis: const maxAttempts = 30
AssistantMaxAttempts == 30
\* processReplicateWithFallback: waitForReplicateResult(prediction.id, token, 120)
ReplicateMaxWait == 120

Min(a, b) == IF a < b THEN a ELSE b

Range(f) == {f[i] : i \in DOMAIN f}

\* slice with its upper bound included
SliceInclusive(list, from, to) == SubSeq(list, from + 1, Min(to + 1, Len(list)))

\* Array.prototype.slice(from, to), 0-based bounds, to exclusive
Slice(list, from, to) == SubSeq(list, from + 1, Min(to, Len(list)))

(***************************************************************************)
(* Values                                                                  *)
(***************************************************************************)
\* `${productName} - изображение ${n}`
SynthAlt(n) == <<"synth", n>>
\* transliterate(`${productName}-${n}`).toLowerCase().replace(/[^a-z0-9]/g, '-')
SynthName(n) == <<"synth", n>>
\* the same followed by .substring(0, 50)
SynthNameCut(n) == <<"synth50", n>>
\* entry j of the reply to sub-batch g, after validateAltTag / validateSeoFilename
ModelAlt(g, j) == <<"model", g, j>>
ModelName(g, j) == <<"model", g, j>>

\* the output reference of a finished upscaling job for url
UpscaledUrl(url) == <<"r", "/">> \o url
\* the public URL the hosting worker returns for the asset made from url
HostedUrl(url) == <<"w", "/">> \o url

(***************************************************************************)
(* Description stage                                                       *)
(***************************************************************************)
\* The status the run reports at observation n (0: the run response, n: poll n).
RunStatusAt(run, n) == IF n < run.pending THEN "in_progress" ELSE run.final

IsPending(status) == status \in {"queued", "in_progress"}

RECURSIVE AssistantPollLoop(_, _, _)
\* runAssistantAnalysis, the while loop: the status it ends with, or "timeout"
AssistantPollLoop(run, status, attempts) ==
  IF ~IsPending(status) THEN status
  ELSE LET next == RunStatusAt(run, attempts + 1)
       IN  IF attempts + 1 >= AssistantMaxAttempts THEN "timeout"
           ELSE AssistantPollLoop(run, next, attempts + 1)

\* runAssistantAnalysis(threadId, assistantId): TRUE iff it returns the reply text
RunAssistantAnalysis(run) ==
  /\ run.code = "200"
  /\ AssistantPollLoop(run, RunStatusAt(run, 0), 0) = "completed"
  /\ run.hasMessage

\* the fallback loop of parseAssistantBatchResponse: indices local to the sub-batch
LocalFallback(expectedCount) ==
  [j \in 1..expectedCount |-> [altTag |-> SynthAlt(j), seoFilename |-> SynthNameCut(j)]]

\* parseAssistantBatchResponse(response, expectedCount, productName)
ParseAssistantBatchResponse(g, reply, expectedCount) ==
  IF reply.kind = "json"
  THEN [j \in 1..reply.entries |->
          [altTag |-> IF reply.blank /\ j = 1 THEN SynthAlt(j) ELSE ModelAlt(g, j),
           seoFilename |-> IF reply.blank /\ j = 1 THEN <<"product", j>>
                           ELSE ModelName(g, j)]]
  ELSE LocalFallback(expectedCount)

\* processOpenAIOriginals, catch (groupError): fallback for the current group
GroupFallback(i, batchLen) ==
  [index \in 1..batchLen |->
     [altTag |-> SynthAlt(i + index), seoFilename |-> SynthNameCut(i + index)]]

\* a failing sub-batch rejects the whole stage (no inner try/catch)
GroupOutcomeAbort(g, i, batchLen, thread, message, run, reply) ==
  IF thread = "200" /\ message = "200" /\ RunAssistantAnalysis(run)
  THEN [ok |-> TRUE, threw |-> FALSE, kind |-> reply.kind,
        pushed |-> ParseAssistantBatchResponse(g, reply, batchLen)]
  ELSE [ok |-> FALSE, threw |-> TRUE, kind |-> "failed", pushed |-> <<>>]

\* processOpenAIOriginals, the body of the for loop for the group starting at i
GroupOutcome(g, i, batchLen, thread, message, run, reply) ==
  IF thread = "200" /\ message = "200" /\ RunAssistantAnalysis(run)
  THEN [ok |-> TRUE, threw |-> FALSE, kind |-> reply.kind,
        pushed |-> ParseAssistantBatchResponse(g, reply, batchLen)]
  ELSE [ok |-> FALSE, threw |-> FALSE, kind |-> "failed",
        pushed |-> GroupFallback(i, batchLen)]

\* processOpenAIOriginals: the result when the assistant id is missing
UnconfiguredTags(n) ==
  [i \in 1..n |-> [altTag |-> SynthAlt(i), seoFilename |-> SynthName(i)]]

\* processOpenAIOriginals, outer catch: basic tags for every image
CriticalFallbackTags(n) ==
  [i \in 1..n |-> [altTag |-> SynthAlt(i), seoFilename |-> SynthNameCut(i)]]

(***************************************************************************)
(* Resolution enhancer                                                     *)
(***************************************************************************)
\* The status poll number n (1-based) of a prediction reports.
JobStatusAt(job, n) == IF n <= job.pending THEN "processing" ELSE job.final

\* Poll n ends the while loop of waitForReplicateResult: the fetch or the parse
\* throws, the job has succeeded with an output, or it has failed.
PollEndsWait(job, n) ==
  \/ job.throwsAt = n
  \/ JobStatusAt(job, n) = "succeeded" /\ job.hasOutput
  \/ JobStatusAt(job, n) = "failed"

\* waitForReplicateResult(predictionId, token, maxWaitSeconds): the loop makes
\* polls 1, 2, ... and stops at the first one that ends it, or after maxAttempts.
\* hasOutput in the result: outputUrl is statusData.output, else undefined.
WaitForReplicateResult(job, maxAttempts) ==
  LET ending == {n \in 1..maxAttempts : PollEndsWait(job, n)}
  IN  IF ending = {}
      THEN [success |-> FALSE, hasOutput |-> FALSE, reason |-> "timeout",
            polls |-> maxAttempts]
      ELSE LET n == CHOOSE k \in ending : \A m \in ending : k <= m
           IN  IF job.throwsAt = n
               THEN [success |-> FALSE, hasOutput |-> FALSE,
                     reason |-> "exception", polls |-> n]
               ELSE IF JobStatusAt(job, n) = "succeeded"
                    THEN [success |-> TRUE, hasOutput |-> job.hasOutput,
                          reason |-> "none", polls |-> n]
                    ELSE [success |-> FALSE, hasOutput |-> FALSE,
                          reason |-> "replicate_failed", polls |-> n]

\* an upscaling job: `pending` polls report processing, then `final`
Jobs ==
  {[pending |-> 0, final |-> "succeeded", hasOutput |-> TRUE, throwsAt |-> 0],
   [pending |-> 3, final |-> "succeeded", hasOutput |-> TRUE, throwsAt |-> 0],
   [pending |-> 1, final |-> "failed", hasOutput |-> FALSE, throwsAt |-> 0],
   [pending |-> 0, final |-> "succeeded", hasOutput |-> FALSE, throwsAt |-> 0],
   [pending |-> ReplicateMaxWait, final |-> "succeeded", hasOutput |-> TRUE,
    throwsAt |-> 0],
   [pending |-> 0, final |-> "canceled", hasOutput |-> FALSE, throwsAt |-> 0],
   [pending |-> 2, final |-> "succeeded", hasOutput |-> TRUE, throwsAt |-> 2]}

\* waitForReplicateResult(prediction.id, settings.replicateToken, 120) for every job
ReplicateResults == [j \in Jobs |-> WaitForReplicateResult(j, ReplicateMaxWait)]

\* result.outputUrl of a wait result for imageUrl (<<>>: undefined)
OutputUrl(result, imageUrl) == IF result.hasOutput THEN UpscaledUrl(imageUrl) ELSE <<>>

\* the per-image callback with its failure outcome carrying no URL
ReplicateUnitEmptyOnFailure(imageUrl, submit, job) ==
  IF submit = "201" /\ ReplicateResults[job].success
  THEN [threw |-> FALSE,
        value |-> [original |-> imageUrl,
                   processed |-> OutputUrl(ReplicateResults[job], imageUrl),
                   wasEnhanced |-> TRUE, error |-> "none"]]
  ELSE [threw |-> FALSE,
        value |-> [original |-> imageUrl, processed |-> <<>>,
                   wasEnhanced |-> FALSE, error |-> "Replicate failed"]]

\* the per-image callback without its try/catch: a failure rejects the promise
ReplicateUnitUncaught(imageUrl, submit, job) ==
  IF submit = "201" /\ ReplicateResults[job].success
  THEN [threw |-> FALSE,
        value |-> [original |-> imageUrl,
                   processed |-> OutputUrl(ReplicateResults[job], imageUrl),
                   wasEnhanced |-> TRUE, error |-> "none"]]
  ELSE [threw |-> TRUE,
        value |-> [original |-> imageUrl, processed |-> imageUrl,
                   wasEnhanced |-> FALSE, error |-> "Replicate failed"]]

\* processReplicateWithFallback: the async callback of imageUrls.map
ReplicateUnit(imageUrl, submit, job) ==
  LET fallback(message) ==
        [threw |-> FALSE,
         value |-> [original |-> imageUrl, processed |-> imageUrl,
                    wasEnhanced |-> FALSE, error |-> message]]
  IN  IF submit = "throw" THEN fallback("exception")
      ELSE IF submit # "201" THEN fallback("Replicate failed")
      ELSE IF ReplicateResults[job].success
           THEN [threw |-> FALSE,
                 value |-> [original |-> imageUrl,
                            processed |-> OutputUrl(ReplicateResults[job], imageUrl),
                            wasEnhanced |-> TRUE, error |-> "none"]]
           ELSE fallback("Replicate processing failed")

\* the pass-through outcomes in the reverse order of the images
PassThroughReversed(imageUrls) ==
  [i \in 1..Len(imageUrls) |->
     [original |-> imageUrls[Len(imageUrls) + 1 - i],
      processed |-> imageUrls[Len(imageUrls) + 1 - i],
      wasEnhanced |-> FALSE, error |-> "none"]]

\* processReplicateWithFallback: the result when the token is missing
PassThrough(imageUrls) ==
  [i \in 1..Len(imageUrls) |->
     [original |-> imageUrls[i], processed |-> imageUrls[i],
      wasEnhanced |-> FALSE, error |-> "none"]]

(***************************************************************************)
(* Compression / hosting finisher                                          *)
(***************************************************************************)
\* unifiedWebPConversion(imageUrl, apiKey): TRUE iff it returns success
UnifiedWebPConversion(conv) ==
  conv.download = "200" /\ conv.shrink = "201" /\ conv.webp = "200"

\* uploadToImgBB(webpBlob, imgbbKey, seoFilename): the URL, or <<>> for null
UploadToImgBB(upload, url) ==
  IF upload.code = "200" /\ upload.success THEN HostedUrl(url) ELSE <<>>

\* analysisResults[index] || { altTag: `Изображение ${index + 1}`, ... }
AnalysisFor(analysisResults, index) ==
  IF index <= Len(analysisResults) THEN analysisResults[index]
  ELSE [altTag |-> <<"default", index>>, seoFilename |-> <<"image", index>>]

\* the per-image callback keeping the URL it was given after a successful upload
OptimizeUnitKeepsUrl(img, analysis, conv, upload) ==
  LET finalUrl == IF UnifiedWebPConversion(conv)
                  THEN UploadToImgBB(upload, img.processed) ELSE <<>>
  IN  [altTag |-> analysis.altTag, seoFilename |-> analysis.seoFilename,
       processedImageUrl |-> img.processed,
       confidence |-> IF finalUrl # <<>> THEN 8
                      ELSE IF img.wasEnhanced THEN 6 ELSE 4]

\* the per-image callback answering every failure as its catch branch does
OptimizeUnitCatchOnly(img, analysis, conv, upload) ==
  LET finalUrl == IF UnifiedWebPConversion(conv)
                  THEN UploadToImgBB(upload, img.processed) ELSE <<>>
  IN  IF finalUrl # <<>>
      THEN [altTag |-> analysis.altTag, seoFilename |-> analysis.seoFilename,
            processedImageUrl |-> finalUrl, confidence |-> 8]
      ELSE [altTag |-> analysis.altTag, seoFilename |-> analysis.seoFilename,
            processedImageUrl |-> img.processed, confidence |-> 3]

\* the per-image callback giving the top confidence once the conversion succeeded
OptimizeUnitEightOnConversion(img, analysis, conv, upload) ==
  LET finalUrl == IF UnifiedWebPConversion(conv)
                  THEN UploadToImgBB(upload, img.processed) ELSE <<>>
  IN  [altTag |-> analysis.altTag, seoFilename |-> analysis.seoFilename,
       processedImageUrl |-> IF finalUrl # <<>> THEN finalUrl ELSE img.processed,
       confidence |-> IF UnifiedWebPConversion(conv) THEN 8
                      ELSE IF img.wasEnhanced THEN 6 ELSE 4]

\* the per-image callback of processUnifiedWebPOptimization
OptimizeUnit(img, analysis, conv, upload) ==
  LET finalUrl == IF UnifiedWebPConversion(conv)
                  THEN UploadToImgBB(upload, img.processed) ELSE <<>>
  IN  IF finalUrl # <<>>
      THEN [altTag |-> analysis.altTag, seoFilename |-> analysis.seoFilename,
            processedImageUrl |-> finalUrl, confidence |-> 8]
      ELSE [altTag |-> analysis.altTag, seoFilename |-> analysis.seoFilename,
            processedImageUrl |-> img.processed,
            confidence |-> IF img.wasEnhanced THEN 6 ELSE 4]

\* the pass-through mapped over the analysis results instead of the images
UnoptimizedPerAnalysis(enhanced, analysisResults) ==
  [index \in 1..Min(Len(enhanced), Len(analysisResults)) |->
     [altTag |-> analysisResults[index].altTag,
      seoFilename |-> analysisResults[index].seoFilename,
      processedImageUrl |-> enhanced[index].processed,
      confidence |-> IF enhanced[index].wasEnhanced THEN 7 ELSE 5]]

\* processUnifiedWebPOptimization: the result when a TinyPNG or ImgBB key is missing
Unoptimized(enhanced, analysisResults) ==
  [index \in 1..Len(enhanced) |->
     LET analysis == AnalysisFor(analysisResults, index)
     IN  [altTag |-> analysis.altTag, seoFilename |-> analysis.seoFilename,
          processedImageUrl |-> enhanced[index].processed,
          confidence |-> IF enhanced[index].wasEnhanced THEN 7 ELSE 5]]

\* analyzeImageSimple, catch (error): the fallback result
FallbackResult ==
  <<[altTag |-> <<"catastrophic">>, seoFilename |-> <<"product-timestamp">>,
     processedImageUrl |-> <<>>, confidence |-> 1]>>

(***************************************************************************)
(* Inputs                                                                  *)
(***************************************************************************)
RECURSIVE JoinUrls(_, _)
\* the URLs of the given distinguishing characters, joined by sep
JoinUrls(chars, sep) ==
  IF chars = <<>> THEN <<>>
  ELSE IF Len(chars) = 1 THEN Url(chars[1])
       ELSE Url(chars[1]) \o <<sep>> \o JoinUrls(Tail(chars), sep)

Empty == <<>>
\* "ftpx": not blank, no valid URL
InvalidOnly == <<"f", "t", "p", "x">>
\* " httpa ,httpb\nhttpa": padded entries and a duplicate
UserTier == <<" ">> \o Url("a") \o <<" ", ",">> \o Url("b") \o <<"\n">> \o Url("a")
\* "httpc,Httpd,,httpC": a wrong-case scheme, an empty entry, a URL differing in case
SupplierTier ==
  Url("c") \o <<",", "H", "t", "t", "p", "d", ",", ",">> \o Url("C")
OriginalTwo == JoinUrls(<<"a", "e">>, "\n")
OriginalSix == JoinUrls(<<"a", "b", "c", "d", "e", "f">>, ",")
OriginalTwelve ==
  JoinUrls(<<"a", "b", "c", "d", "e", "f", "g", "h", "i", "j", "k", "l">>, ",")

OriginalOne == Url("z")

Product(original, supplier, additional) ==
  [productName |-> "P", originalImages |-> original, supplierImages |-> supplier,
   additionalImages |-> additional]

\* the products handed to analyzeImageSimple
Products ==
  {Product(Empty, Empty, Empty),
   Product(Empty, Empty, InvalidOnly),
   Product(OriginalTwo, SupplierTier, UserTier),
   Product(OriginalTwelve, SupplierTier, InvalidOnly),
   Product(Empty, Empty, UserTier),
   Product(OriginalOne, Empty, Empty),
   Product(OriginalTwo, Empty, Empty),
   Product(OriginalSix, Empty, Empty),
   Product(OriginalTwelve, Empty, InvalidOnly)}

Credentials == {"openaiAltAssistantId", "replicateToken", "tinypngKey", "imgbbKey"}

\* TRUE: the credential is present in the script properties.  Every credential
\* present, exactly one missing, or none present.
SettingsSet ==
  {[c \in Credentials |-> c \notin missing] :
     missing \in {{}} \cup {{c} : c \in Credentials} \cup {Credentials}}

HttpCodes200 == {"200", "500", "throw"}
HttpCodes201 == {"201", "500", "throw"}

\* the analysis run: answers code, stays pending for `pending` observations,
\* then reports `final`; hasMessage: the thread holds an assistant message
Runs ==
  {[code |-> "200", pending |-> 0, final |-> "completed", hasMessage |-> TRUE],
   [code |-> "200", pending |-> 2, final |-> "completed", hasMessage |-> TRUE],
   [code |-> "500", pending |-> 0, final |-> "completed", hasMessage |-> TRUE],
   [code |-> "200", pending |-> 1, final |-> "failed", hasMessage |-> TRUE],
   [code |-> "200", pending |-> AssistantMaxAttempts + 1, final |-> "completed",
    hasMessage |-> TRUE],
   [code |-> "200", pending |-> 0, final |-> "completed", hasMessage |-> FALSE]}

\* replies of the assistant to a sub-batch of n images
Replies(n) ==
  [kind : {"json"}, entries : 0..(n + 1), blank : {FALSE}]
    \cup {[kind |-> "json", entries |-> n, blank |-> TRUE],
          [kind |-> "text", entries |-> 0, blank |-> FALSE],
          [kind |-> "badjson", entries |-> 0, blank |-> FALSE]}

\* a call that was not made because an earlier one failed
NotCalled == "none"
NoRun == [code |-> NotCalled, pending |-> 0, final |-> NotCalled, hasMessage |-> FALSE]
NoReply == [kind |-> NotCalled, entries |-> 0, blank |-> FALSE]
NoJob == [pending |-> 0, final |-> NotCalled, hasOutput |-> FALSE, throwsAt |-> 0]
NoUpload == [code |-> NotCalled, success |-> FALSE]

\* the runs runAssistantAnalysis returns a reply for
AnsweredRuns == {x \in Runs : RunAssistantAnalysis(x)}

\* what the analysis capability answers to one sub-batch of n images: the thread
\* creation, the message post, the run and the reply, each only if it is reached
GroupEnvs(n) ==
  {<<t, NotCalled, NoRun, NoReply>> : t \in HttpCodes200 \ {"200"}}
    \cup {<<"200", m, NoRun, NoReply>> : m \in HttpCodes200 \ {"200"}}
    \cup {<<"200", "200", r, NoReply>> : r \in Runs \ AnsweredRuns}
    \cup {<<"200", "200", r, reply>> : r \in AnsweredRuns, reply \in Replies(n)}

\* what the upscaling capability answers for one image
JobEnvs ==
  {<<c, NoJob>> : c \in HttpCodes201 \ {"201"}} \cup {<<"201", j>> : j \in Jobs}

\* the download, the shrink call and the conversion call, each only if reached
Conversions ==
  {[download |-> d, shrink |-> NotCalled, webp |-> NotCalled] :
     d \in HttpCodes200 \ {"200"}}
    \cup {[download |-> "200", shrink |-> c, webp |-> NotCalled] :
            c \in HttpCodes201 \ {"201"}}
    \cup {[download |-> "200", shrink |-> "201", webp |-> w] : w \in HttpCodes200}

Uploads == [code : HttpCodes200, success : BOOLEAN]

\* what compression and hosting answer for one image
FinishEnvs ==
  {<<c, NoUpload>> : c \in {x \in Conversions : ~UnifiedWebPConversion(x)}}
    \cup {<<c, u>> : c \in {x \in Conversions : UnifiedWebPConversion(x)}, u \in Uploads}

\* a direct call of analyzeImageSimple: no sheet workflow around it
NoSheet ==
  [phase |-> "direct", rows |-> <<>>, queue |-> <<>>, idx |-> 0, status |-> <<>>,
   written |-> <<>>, ran |-> <<>>, processed |-> 0, errors |-> 0]

\* another failure may be injected
FaultAllowed ==
  \/ faults < MaxFaults
  \/ sheet.phase = "direct" /\ Len(imagesToProcess) <= FullBatch

(***************************************************************************)
(* analyzeImageSimple                                                      *)
(***************************************************************************)
Init ==
  /\ product \in Products
  /\ settings \in SettingsSet
  /\ pc = "start"
  /\ allImageUrls = <<>>
  /\ imagesToProcess = <<>>
  /\ allResults = <<>>
  /\ groupLog = <<>>
  /\ enhancedImages = <<>>
  /\ finalResults = <<>>
  /\ faults = 0
  /\ sheet = NoSheet
  /\ args = <<>>
  /\ ret = <<>>

\* analyzeImageSimple, catch (error)
Caught ==
  /\ pc' = "caught"
  /\ finalResults' = FallbackResult

\* every located URL is processed
ImagesToProcessUncapped(all) == all

\* const imagesToProcess = allImageUrls.slice(0, 10)
ImagesToProcess(all) == Slice(all, 0, MaxImages)

\* combineAllImages, the length check and slice(0, 10)
Locate ==
  /\ pc = "start"
  /\ LET all == CombineAllImages(product.originalImages, product.supplierImages,
                                 product.additionalImages)
     IN  /\ allImageUrls' = all
         /\ IF all = <<>>
            THEN Caught /\ UNCHANGED imagesToProcess
            ELSE /\ imagesToProcess' = ImagesToProcess(all)
                 /\ pc' = "describe"
                 /\ UNCHANGED finalResults
  /\ UNCHANGED <<product, settings, allResults, groupLog, enhancedImages, faults, sheet>>
  /\ UNCHANGED <<args, ret>>

\* processOpenAIOriginals without an assistant id
DescribeUnconfigured ==
  /\ pc = "describe"
  /\ ~settings.openaiAltAssistantId
  /\ allResults' = UnconfiguredTags(Len(imagesToProcess))
  /\ pc' = "enhance"
  /\ UNCHANGED <<product, settings, allImageUrls, imagesToProcess, groupLog,
                 enhancedImages, finalResults, faults, sheet>>
  /\ UNCHANGED <<args, ret>>

\* processOpenAIOriginals: getApiSettings() throws, the outer catch answers
DescribeSettingsThrow ==
  /\ pc = "describe"
  /\ groupLog = <<>>
  /\ FaultAllowed
  /\ faults' = faults + 1
  /\ allResults' = CriticalFallbackTags(Len(imagesToProcess))
  /\ pc' = "enhance"
  /\ UNCHANGED <<product, settings, allImageUrls, imagesToProcess, groupLog,
                 enhancedImages, finalResults, sheet>>
  /\ UNCHANGED <<args, ret>>

\* the reply every image of the sub-batch is answered in
IdealGroup(thread, message, run, reply, batchLen) ==
  /\ thread = "200" /\ message = "200" /\ RunAssistantAnalysis(run)
  /\ reply.kind = "json" /\ reply.entries = batchLen /\ ~reply.blank

\* processOpenAIOriginals: one iteration of the for loop over the groups
DescribeGroup ==
  /\ pc = "describe"
  /\ settings.openaiAltAssistantId
  /\ LET i == BATCH_SIZE * Len(groupLog)
         batch == Slice(imagesToProcess, i, i + BATCH_SIZE)
         groupNumber == (i \div BATCH_SIZE) + 1
     IN  \E env \in GroupEnvs(Len(batch)) :
           LET thread == env[1]
               message == env[2]
               run == env[3]
               reply == env[4]
               out == GroupOutcome(groupNumber, i, Len(batch), thread, message,
                                   run, reply)
               ideal == IdealGroup(thread, message, run, reply, Len(batch))
               last == i + BATCH_SIZE >= Len(imagesToProcess)
           IN  /\ ideal \/ FaultAllowed
               /\ faults' = IF ideal THEN faults ELSE faults + 1
               /\ groupLog' = Append(groupLog,
                    [ok |-> out.ok, kind |-> out.kind, images |-> batch,
                     from |-> Len(allResults) + 1, count |-> Len(out.pushed),
                     threads |-> 1, slept |-> out.ok /\ ~last])
               /\ IF out.threw
                  THEN /\ allResults' = CriticalFallbackTags(Len(imagesToProcess))
                       /\ pc' = "enhance"
                  ELSE /\ allResults' = allResults \o out.pushed
                       /\ pc' = IF last THEN "enhance" ELSE "describe"
  /\ UNCHANGED <<product, settings, allImageUrls, imagesToProcess, enhancedImages,
                 finalResults, sheet>>
  /\ UNCHANGED <<args, ret>>

\* processReplicateWithFallback without a token
EnhanceUnconfigured ==
  /\ pc = "enhance"
  /\ ~settings.replicateToken
  /\ enhancedImages' = PassThrough(imagesToProcess)
  /\ pc' = "finish"
  /\ UNCHANGED <<product, settings, allImageUrls, imagesToProcess, allResults,
                 groupLog, finalResults, faults, sheet>>
  /\ UNCHANGED <<args, ret>>

\* processReplicateWithFallback: getApiSettings() throws, nothing catches it
\* before analyzeImageSimple does
EnhanceSettingsThrow ==
  /\ pc = "enhance"
  /\ enhancedImages = <<>>
  /\ FaultAllowed
  /\ faults' = faults + 1
  /\ Caught
  /\ UNCHANGED <<product, settings, allImageUrls, imagesToProcess, allResults,
                 groupLog, enhancedImages, sheet>>
  /\ UNCHANGED <<args, ret>>

IdealJob(submit, job) ==
  submit = "201" /\ ReplicateResults[job].success

\* the enhancer streaming: its units start while the description stage still
\* works on its sub-batches
EnhanceUnitStreaming ==
  /\ pc \in {"describe", "enhance"}
  /\ settings.replicateToken
  /\ Len(enhancedImages) < Len(imagesToProcess)
  /\ LET index == Len(enhancedImages) + 1
         unit == ReplicateUnit(imagesToProcess[index], "201", CHOOSE j \in Jobs : TRUE)
     IN  /\ enhancedImages' = Append(enhancedImages, unit.value)
         /\ pc' = IF pc = "describe" THEN "describe"
                  ELSE IF index = Len(imagesToProcess) THEN "finish" ELSE "enhance"
  /\ UNCHANGED <<product, settings, allImageUrls, imagesToProcess, allResults,
                 groupLog, finalResults, faults, sheet, args, ret>>

\* processReplicateWithFallback: the unit of the next image; Promise.all keeps
\* the outcomes in the order of the images and rejects if a unit rejects
EnhanceUnit ==
  /\ pc = "enhance"
  /\ settings.replicateToken
  /\ LET index == Len(enhancedImages) + 1
         imageUrl == imagesToProcess[index]
     IN  \E env \in JobEnvs :
           LET submit == env[1]
               job == env[2]
               unit == ReplicateUnit(imageUrl, submit, job)
               ideal == IdealJob(submit, job)
           IN  /\ ideal \/ FaultAllowed
               /\ faults' = IF ideal THEN faults ELSE faults + 1
               /\ IF unit.threw
                  THEN Caught /\ UNCHANGED enhancedImages
                  ELSE /\ enhancedImages' = Append(enhancedImages, unit.value)
                       /\ pc' = IF index = Len(imagesToProcess) THEN "finish"
                                ELSE "enhance"
                       /\ UNCHANGED finalResults
  /\ UNCHANGED <<product, settings, allImageUrls, imagesToProcess, allResults,
                 groupLog, sheet>>
  /\ UNCHANGED <<args, ret>>

\* processUnifiedWebPOptimization without a TinyPNG or an ImgBB key
FinishUnconfigured ==
  /\ pc = "finish"
  /\ ~settings.tinypngKey \/ ~settings.imgbbKey
  /\ finalResults' = Unoptimized(enhancedImages, allResults)
  /\ pc' = "returned"
  /\ UNCHANGED <<product, settings, allImageUrls, imagesToProcess, allResults,
                 groupLog, enhancedImages, faults, sheet>>
  /\ UNCHANGED <<args, ret>>

\* processUnifiedWebPOptimization: getApiSettings() throws
FinishSettingsThrow ==
  /\ pc = "finish"
  /\ finalResults = <<>>
  /\ FaultAllowed
  /\ faults' = faults + 1
  /\ Caught
  /\ UNCHANGED <<product, settings, allImageUrls, imagesToProcess, allResults,
                 groupLog, enhancedImages, sheet>>
  /\ UNCHANGED <<args, ret>>

IdealFinish(conv, upload) ==
  UnifiedWebPConversion(conv) /\ upload.code = "200" /\ upload.success

\* processUnifiedWebPOptimization: the unit of the next image; after the last
\* one analyzeImageSimple shows the summary and returns finalResults
OptimizeUnitStep ==
  /\ pc = "finish"
  /\ settings.tinypngKey /\ settings.imgbbKey
  /\ LET index == Len(finalResults) + 1
         img == enhancedImages[index]
         analysis == AnalysisFor(allResults, index)
     IN  \E env \in FinishEnvs :
           LET conv == env[1]
               upload == env[2]
               ideal == IdealFinish(conv, upload)
           IN  /\ ideal \/ FaultAllowed
               /\ faults' = IF ideal THEN faults ELSE faults + 1
               /\ finalResults' =
                    Append(finalResults, OptimizeUnit(img, analysis, conv, upload))
               /\ pc' = IF index = Len(enhancedImages) THEN "returned" ELSE "finish"
  /\ UNCHANGED <<product, settings, allImageUrls, imagesToProcess, allResults,
                 groupLog, enhancedImages, sheet>>
  /\ UNCHANGED <<args, ret>>

Pipeline ==
  \/ Locate
  \/ DescribeUnconfigured
  \/ DescribeSettingsThrow
  \/ DescribeGroup
  \/ EnhanceUnconfigured
  \/ EnhanceSettingsThrow
  \/ EnhanceUnit
  \/ FinishUnconfigured
  \/ FinishSettingsThrow
  \/ OptimizeUnitStep

(***************************************************************************)
(* processSelectedImages                                                   *)
(***************************************************************************)
\* Checked rows of the sheet in the workflow specification.
MaxRows == 2

\* " ": a cell that is not empty but blank
Blank == <<" ">>

\* the checked rows getProductsForProcessing returns (a row needs a truthy cell)
SheetProducts ==
  {Product(Empty, Empty, UserTier),
   Product(OriginalOne, Empty, Empty),
   Product(OriginalTwo, Empty, UserTier),
   Product(InvalidOnly, Empty, Empty),
   Product(Blank, Empty, Empty)}

SheetSettings == {x \in SettingsSet : x.openaiAltAssistantId = x.replicateToken}

RowLists == UNION {[1..n -> SheetProducts] : n \in 0..MaxRows}

\* p.originalImages && p.originalImages.trim() || ... (the filter of step 2)
HasImages(p) ==
  \/ Trim(p.originalImages) # <<>>
  \/ Trim(p.supplierImages) # <<>>
  \/ Trim(p.additionalImages) # <<>>

RECURSIVE ProductsWithImages(_)
\* products.filter(p => ...)
ProductsWithImages(rows) ==
  IF rows = <<>> THEN <<>>
  ELSE IF HasImages(Head(rows)) THEN <<Head(rows)>> \o ProductsWithImages(Tail(rows))
       ELSE ProductsWithImages(Tail(rows))

\* product.originalImages.split(/[,\n]/).map(trim).filter(http).slice(0, 10)
OriginalImageUrls(p) == Slice(ParseUrls(p.originalImages), 0, MaxImages)

InitSelected ==
  /\ product = Product(Empty, Empty, Empty)
  /\ settings \in SheetSettings
  /\ pc = "idle"
  /\ allImageUrls = <<>>
  /\ imagesToProcess = <<>>
  /\ allResults = <<>>
  /\ groupLog = <<>>
  /\ enhancedImages = <<>>
  /\ finalResults = <<>>
  /\ faults = 0
  /\ \E rows \in RowLists :
       sheet = [phase |-> "select", rows |-> rows, queue |-> <<>>, idx |-> 0,
                status |-> <<>>, written |-> <<>>, ran |-> <<>>,
                processed |-> 0, errors |-> 0]
  /\ args = <<>>
  /\ ret = <<>>

\* steps 1 and 2: getProductsForProcessing, the filter, the two early returns
SelectProducts ==
  /\ sheet.phase = "select"
  /\ LET queue == ProductsWithImages(sheet.rows)
     IN  sheet' = [sheet EXCEPT
                     !.queue = queue,
                     !.idx = 1,
                     !.status = [i \in 1..Len(queue) |-> "none"],
                     !.written = [i \in 1..Len(queue) |-> <<>>],
                     !.ran = [i \in 1..Len(queue) |-> FALSE],
                     !.phase = IF queue = <<>> THEN "returned" ELSE "loop"]
  /\ UNCHANGED <<product, settings, pc, allImageUrls, imagesToProcess, allResults,
                 groupLog, enhancedImages, finalResults, faults>>
  /\ UNCHANGED <<args, ret>>

\* a loop that a failed product would end: the index moves on only after a
\* product that was not marked "error"
AdvanceStopping(s) ==
  [s EXCEPT !.idx = s.idx + 1,
            !.phase = IF s.idx + 1 > Len(s.queue) \/ s.status[s.idx] = "error"
                      THEN "returned" ELSE "loop"]

\* the next index, or the end of the loop: the notification and return stats
Advance(s) ==
  [s EXCEPT !.idx = s.idx + 1,
            !.phase = IF s.idx + 1 > Len(s.queue) THEN "returned" ELSE "loop"]

\* setProcessingStatusSimple(product.article, status) for the product of the
\* current iteration: the cell holds the status, written keeps every value set
SetProcessingStatus(s, status) ==
  [s EXCEPT !.status[s.idx] = status,
            !.written[s.idx] = Append(@, status)]

\* step 3, the head of one iteration: status 'Обработка...' ("processing"), the
\* URLs of originalImages, 'Ошибка' ("error") if there is none, else the call
StartProduct ==
  /\ sheet.phase = "loop"
  /\ pc = "idle"
  /\ LET p == sheet.queue[sheet.idx]
     IN  IF OriginalImageUrls(p) = <<>>
         THEN /\ sheet' = Advance([SetProcessingStatus(
                                      SetProcessingStatus(sheet, "processing"),
                                      "error")
                                      EXCEPT !.errors = @ + 1])
              /\ UNCHANGED <<product, pc>>
         ELSE /\ sheet' = [SetProcessingStatus(sheet, "processing")
                                 EXCEPT !.ran[sheet.idx] = TRUE]
              /\ product' = p
              /\ pc' = "start"
  /\ UNCHANGED <<settings, allImageUrls, imagesToProcess, allResults, groupLog,
                 enhancedImages, finalResults, faults>>
  /\ UNCHANGED <<args, ret>>

\* step 3, after analyzeImageSimple has returned: the results are saved with
\* status 'Обработано' ("processed"), or an empty result is an error
FinishProduct ==
  /\ sheet.phase = "loop"
  /\ pc \in {"returned", "caught"}
  /\ sheet' = Advance(IF Len(finalResults) > 0
                      THEN [SetProcessingStatus(sheet, "processed")
                                 EXCEPT !.processed = @ + 1]
                      ELSE [SetProcessingStatus(sheet, "error")
                                 EXCEPT !.errors = @ + 1])
  /\ pc' = "idle"
  /\ allImageUrls' = <<>>
  /\ imagesToProcess' = <<>>
  /\ allResults' = <<>>
  /\ groupLog' = <<>>
  /\ enhancedImages' = <<>>
  /\ finalResults' = <<>>
  /\ UNCHANGED <<product, settings, faults>>
  /\ UNCHANGED <<args, ret>>

Next == Pipeline

Spec == Init /\ [][Next]_vars

NextSelected == Pipeline \/ SelectProducts \/ StartProduct \/ FinishProduct

SpecSelected == InitSelected /\ [][NextSelected]_vars

(***************************************************************************)
(* The asset locator alone, over every combination of short source strings *)
(***************************************************************************)
\* entries of the user-selected, the supplier and the platform source strings
UserEntries == {<<" ">> \o Url("a") \o <<" ">>, Url("b"), <<"f", "t", "p", "x">>}
SupplierEntries == {Url("a"), Url("c"), <<>>}
OriginalEntries == {Url("A"), Url("a"), <<"\t">> \o Url("d")}

\* the source strings of at most MaxEntries entries, joined by sep
Sources(entries, sep) ==
  {<<>>} \cup UNION {
    {IF n = 1 THEN f[1] ELSE f[1] \o <<sep>> \o f[2] \o
                             (IF n = 2 THEN <<>> ELSE <<sep>> \o f[3]) :
       f \in [1..n -> entries]} : n \in 1..Min(MaxEntries, 3)}

InitLocate ==
  /\ product \in
       {Product(o, s, a) : o \in Sources(OriginalEntries, ","),
                           s \in Sources(SupplierEntries, "\n"),
                           a \in Sources(UserEntries, ",")}
  /\ settings \in {[c \in Credentials |-> TRUE]}
  /\ pc = "start"
  /\ allImageUrls = <<>>
  /\ imagesToProcess = <<>>
  /\ allResults = <<>>
  /\ groupLog = <<>>
  /\ enhancedImages = <<>>
  /\ finalResults = <<>>
  /\ faults = 0
  /\ sheet = NoSheet
  /\ args = <<>>
  /\ ret = <<>>

SpecLocate == InitLocate /\ [][Locate]_vars

(***************************************************************************)
(* The per-image units of the enhancer and of the finisher as promises     *)
(* that settle in any order, collected by Promise.all                      *)
(***************************************************************************)
\* Images of a batch whose units are in flight together.
MaxUnits == 3

UnitLetters == <<"a", "b", "c", "d", "e">>

\* products with 1..MaxUnits platform images and no other tier
UnitProducts ==
  {Product(JoinUrls(SubSeq(UnitLetters, 1, n), ","), Empty, Empty) :
     n \in 1..Min(MaxUnits, Len(UnitLetters))}

\* a promise of the enhancer that has not settled
PendingEnhancement ==
  [settled |-> FALSE, unit |-> 0,
   value |-> [original |-> <<>>, processed |-> <<>>, wasEnhanced |-> FALSE,
              error |-> "pending"]]

\* a promise of the finisher that has not settled
PendingResult ==
  [settled |-> FALSE, unit |-> 0,
   value |-> [altTag |-> <<>>, seoFilename |-> <<>>, processedImageUrl |-> <<>>,
              confidence |-> 0]]

\* the values collected in the order in which the promises settle
ResultSlotByCompletion(index, settledBefore) == settledBefore + 1

\* Promise.all(promises): the value of promises[index] becomes element index of
\* the result, however many promises settled before it
ResultSlot(index, settledBefore) == index

\* the units whose promise has settled
SettledUnits(slots) == {slots[k].unit : k \in {j \in 1..Len(slots) : slots[j].settled}}

AllSettled(slots) == \A k \in 1..Len(slots) : slots[k].settled

\* the values Promise.all resolves with
Values(slots) == [k \in 1..Len(slots) |-> slots[k].value]

InitUnits ==
  /\ product \in UnitProducts
  /\ settings = [c \in Credentials |-> TRUE]
  /\ pc = "enhance"
  /\ allImageUrls = CombineAllImages(product.originalImages, product.supplierImages,
                                     product.additionalImages)
  /\ imagesToProcess = ImagesToProcess(allImageUrls)
  /\ allResults = ParseAssistantBatchResponse(
                    1, [kind |-> "json", entries |-> Len(imagesToProcess),
                        blank |-> FALSE], Len(imagesToProcess))
  /\ groupLog = <<>>
  /\ enhancedImages = [i \in 1..Len(imagesToProcess) |-> PendingEnhancement]
  /\ finalResults = <<>>
  /\ faults = 0
  /\ sheet = NoSheet
  /\ args = <<>>
  /\ ret = <<>>

\* processReplicateWithFallback: the promise of some image settles
SettleEnhanceUnit ==
  /\ pc = "enhance"
  /\ \E index \in (1..Len(imagesToProcess)) \ SettledUnits(enhancedImages) :
       \E env \in JobEnvs :
         LET unit == ReplicateUnit(imagesToProcess[index], env[1], env[2])
             slot == ResultSlot(index, Cardinality(SettledUnits(enhancedImages)))
         IN  enhancedImages' =
               [enhancedImages EXCEPT
                  ![slot] = [settled |-> TRUE, unit |-> index, value |-> unit.value]]
  /\ UNCHANGED <<product, settings, pc, allImageUrls, imagesToProcess, allResults,
                 groupLog, finalResults, faults, sheet, args, ret>>

\* await Promise.all(replicatePromises), return results; the finisher maps its
\* callback over them
AwaitEnhance ==
  /\ pc = "enhance"
  /\ AllSettled(enhancedImages)
  /\ pc' = "finish"
  /\ finalResults' = [i \in 1..Len(enhancedImages) |-> PendingResult]
  /\ UNCHANGED <<product, settings, allImageUrls, imagesToProcess, allResults,
                 groupLog, enhancedImages, faults, sheet, args, ret>>

\* processUnifiedWebPOptimization: the promise of some image settles
SettleOptimizeUnit ==
  /\ pc = "finish"
  /\ \E index \in (1..Len(enhancedImages)) \ SettledUnits(finalResults) :
       \E env \in FinishEnvs :
         LET img == Values(enhancedImages)[index]
             record == OptimizeUnit(img, AnalysisFor(allResults, index), env[1], env[2])
             slot == ResultSlot(index, Cardinality(SettledUnits(finalResults)))
         IN  finalResults' =
               [finalResults EXCEPT
                  ![slot] = [settled |-> TRUE, unit |-> index, value |-> record]]
  /\ UNCHANGED <<product, settings, pc, allImageUrls, imagesToProcess, allResults,
                 groupLog, enhancedImages, faults, sheet, args, ret>>

\* await Promise.all(optimizationPromises), return results
AwaitFinish ==
  /\ pc = "finish"
  /\ AllSettled(finalResults)
  /\ pc' = "returned"
  /\ UNCHANGED <<product, settings, allImageUrls, imagesToProcess, allResults,
                 groupLog, enhancedImages, finalResults, faults, sheet, args, ret>>

NextUnits == SettleEnhanceUnit \/ AwaitEnhance \/ SettleOptimizeUnit \/ AwaitFinish

SpecUnits == InitUnits /\ [][NextUnits]_vars

(***************************************************************************)
(* The record of one image, for two images of any two runs side by side    *)
(***************************************************************************)
\* the outcomes processReplicateWithFallback can return for one image
EnhancementOutcomes ==
  {ReplicateUnit(Url("a"), e[1], e[2]).value : e \in JobEnvs}
    \cup {PassThrough(<<Url("a")>>)[1]}

\* the finisher made no call
NoConversion == [download |-> NotCalled, shrink |-> NotCalled, webp |-> NotCalled]

\* how the record of one image comes about: through the catch of
\* analyzeImageSimple, or through the finisher with or without its keys
ImageCases ==
  {[kind |-> "catastrophic", configured |-> FALSE,
    img |-> PassThrough(<<Url("a")>>)[1], conv |-> NoConversion,
    upload |-> NoUpload]}
    \cup {[kind |-> "finished", configured |-> FALSE, img |-> i,
           conv |-> NoConversion, upload |-> NoUpload] :
            i \in EnhancementOutcomes}
    \cup {[kind |-> "finished", configured |-> TRUE, img |-> i, conv |-> e[1],
           upload |-> e[2]] : i \in EnhancementOutcomes, e \in FinishEnvs}

\* the record analyzeImageSimple returns for the image of case c
RecordOf(c) ==
  LET analysis == UnconfiguredTags(1)
  IN  IF c.kind = "catastrophic" THEN FallbackResult[1]
      ELSE IF c.configured THEN OptimizeUnit(c.img, analysis[1], c.conv, c.upload)
           ELSE Unoptimized(<<c.img>>, analysis)[1]

InitFinisher ==
  /\ product = Product(Url("a"), Empty, Empty)
  /\ settings = [c \in Credentials |-> TRUE]
  /\ pc = "start"
  /\ allImageUrls = <<>>
  /\ imagesToProcess = <<>>
  /\ allResults = <<>>
  /\ groupLog = <<>>
  /\ enhancedImages = <<>>
  /\ finalResults = <<>>
  /\ faults = 0
  /\ sheet = NoSheet
  /\ args \in ImageCases \X ImageCases
  /\ ret = <<>>

\* the two records are produced
ApplyFinisher ==
  /\ pc = "start"
  /\ args # <<>>
  /\ ret' = <<RecordOf(args[1]), RecordOf(args[2])>>
  /\ pc' = "returned"
  /\ UNCHANGED <<product, settings, allImageUrls, imagesToProcess, allResults,
                 groupLog, enhancedImages, finalResults, faults, sheet, args>>

SpecFinisher == InitFinisher /\ [][ApplyFinisher]_vars

(***************************************************************************)
(* The texts of the description stage, character by character.  A Cyrillic *)
(* letter is written "ru_" (lower case) or "RU_" (upper case) followed by  *)
(* its name: "ru_f" is the letter ef, "RU_F" its capital.                  *)
(***************************************************************************)
AsciiLower == <<"a", "b", "c", "d", "e", "f", "g", "h", "i", "j", "k", "l", "m", "n", "o", "p", "q", "r", "s", "t", "u", "v", "w", "x", "y", "z">>
AsciiUpper == <<"A", "B", "C", "D", "E", "F", "G", "H", "I", "J", "K", "L", "M", "N", "O", "P", "Q", "R", "S", "T", "U", "V", "W", "X", "Y", "Z">>
Digits == <<"0", "1", "2", "3", "4", "5", "6", "7", "8", "9">>

\* the letters of the rules table of transliterate, each with its replacement
Rules ==
  "ru_a" :> <<"a">> @@ "ru_b" :> <<"b">> @@ "ru_v" :> <<"v">> @@
  "ru_g" :> <<"g">> @@ "ru_d" :> <<"d">> @@ "ru_e" :> <<"e">> @@
  "ru_yo" :> <<"y", "o">> @@ "ru_zh" :> <<"z", "h">> @@ "ru_z" :> <<"z">> @@
  "ru_i" :> <<"i">> @@ "ru_j" :> <<"y">> @@ "ru_k" :> <<"k">> @@
  "ru_l" :> <<"l">> @@ "ru_m" :> <<"m">> @@ "ru_n" :> <<"n">> @@
  "ru_o" :> <<"o">> @@ "ru_p" :> <<"p">> @@ "ru_r" :> <<"r">> @@
  "ru_s" :> <<"s">> @@ "ru_t" :> <<"t">> @@ "ru_u" :> <<"u">> @@
  "ru_f" :> <<"f">> @@ "ru_kh" :> <<"k", "h">> @@ "ru_ts" :> <<"t", "s">> @@
  "ru_ch" :> <<"c", "h">> @@ "ru_sh" :> <<"s", "h">> @@
  "ru_sch" :> <<"s", "c", "h">> @@ "ru_hard" :> <<>> @@ "ru_y" :> <<"y">> @@
  "ru_soft" :> <<>> @@ "ru_eh" :> <<"e">> @@ "ru_yu" :> <<"y", "u">> @@
  "ru_ya" :> <<"y", "a">> @@ "RU_A" :> <<"A">> @@ "RU_B" :> <<"B">> @@
  "RU_V" :> <<"V">> @@ "RU_G" :> <<"G">> @@ "RU_D" :> <<"D">> @@
  "RU_E" :> <<"E">> @@ "RU_YO" :> <<"Y", "o">> @@ "RU_ZH" :> <<"Z", "h">> @@
  "RU_Z" :> <<"Z">> @@ "RU_I" :> <<"I">> @@ "RU_J" :> <<"Y">> @@
  "RU_K" :> <<"K">> @@ "RU_L" :> <<"L">> @@ "RU_M" :> <<"M">> @@
  "RU_N" :> <<"N">> @@ "RU_O" :> <<"O">> @@ "RU_P" :> <<"P">> @@
  "RU_R" :> <<"R">> @@ "RU_S" :> <<"S">> @@ "RU_T" :> <<"T">> @@
  "RU_U" :> <<"U">> @@ "RU_F" :> <<"F">> @@ "RU_KH" :> <<"K", "h">> @@
  "RU_TS" :> <<"T", "s">> @@ "RU_CH" :> <<"C", "h">> @@
  "RU_SH" :> <<"S", "h">> @@ "RU_SCH" :> <<"S", "c", "h">> @@
  "RU_HARD" :> <<>> @@ "RU_Y" :> <<"Y">> @@ "RU_SOFT" :> <<>> @@
  "RU_EH" :> <<"E">> @@ "RU_YU" :> <<"Y", "u">> @@ "RU_YA" :> <<"Y", "a">>

IsCyrillic(c) == c \in DOMAIN Rules

\* \w of a regular expression without the u flag: [A-Za-z0-9_]
IsWordChar(c) == c \in Range(AsciiLower) \cup Range(AsciiUpper) \cup Range(Digits) \cup {"_"}

\* \s
IsWhitespace(c) == c \in {" ", "\t", "\n"}

\* the position of x in list (0: not there)
IndexOf(list, x) ==
  IF x \in Range(list) THEN CHOOSE k \in 1..Len(list) : list[k] = x ELSE 0

\* the lower-case letters of the Cyrillic capitals
LowerOfCyrillic ==
  [c \in {"RU_A", "RU_B", "RU_V", "RU_G", "RU_D", "RU_E", "RU_YO", "RU_ZH", "RU_Z",
          "RU_I", "RU_J", "RU_K", "RU_L", "RU_M", "RU_N", "RU_O", "RU_P", "RU_R",
          "RU_S", "RU_T", "RU_U", "RU_F", "RU_KH", "RU_TS", "RU_CH", "RU_SH",
          "RU_SCH", "RU_HARD", "RU_Y", "RU_SOFT", "RU_EH", "RU_YU", "RU_YA"} |->
     CASE c = "RU_A" -> "ru_a" [] c = "RU_B" -> "ru_b" [] c = "RU_V" -> "ru_v"
       [] c = "RU_G" -> "ru_g" [] c = "RU_D" -> "ru_d" [] c = "RU_E" -> "ru_e"
       [] c = "RU_YO" -> "ru_yo" [] c = "RU_ZH" -> "ru_zh" [] c = "RU_Z" -> "ru_z"
       [] c = "RU_I" -> "ru_i" [] c = "RU_J" -> "ru_j" [] c = "RU_K" -> "ru_k"
       [] c = "RU_L" -> "ru_l" [] c = "RU_M" -> "ru_m" [] c = "RU_N" -> "ru_n"
       [] c = "RU_O" -> "ru_o" [] c = "RU_P" -> "ru_p" [] c = "RU_R" -> "ru_r"
       [] c = "RU_S" -> "ru_s" [] c = "RU_T" -> "ru_t" [] c = "RU_U" -> "ru_u"
       [] c = "RU_F" -> "ru_f" [] c = "RU_KH" -> "ru_kh" [] c = "RU_TS" -> "ru_ts"
       [] c = "RU_CH" -> "ru_ch" [] c = "RU_SH" -> "ru_sh" [] c = "RU_SCH" -> "ru_sch"
       [] c = "RU_HARD" -> "ru_hard" [] c = "RU_Y" -> "ru_y" [] c = "RU_SOFT" -> "ru_soft"
       [] c = "RU_EH" -> "ru_eh" [] c = "RU_YU" -> "ru_yu" [] c = "RU_YA" -> "ru_ya"]

\* String.prototype.toLowerCase of one character
LowerChar(c) ==
  IF c \in Range(AsciiUpper) THEN AsciiLower[IndexOf(AsciiUpper, c)]
  ELSE IF c \in DOMAIN LowerOfCyrillic THEN LowerOfCyrillic[c]
       ELSE c

\* String.prototype.toLowerCase
ToLowerCase(s) == [k \in 1..Len(s) |-> LowerChar(s[k])]

RECURSIVE FlattenRange(_, _, _)
\* the strings list[lo..hi] joined
FlattenRange(list, lo, hi) ==
  IF lo > hi THEN <<>>
  ELSE IF lo = hi THEN list[lo]
       ELSE LET mid == (lo + hi) \div 2
            IN  FlattenRange(list, lo, mid) \o FlattenRange(list, mid + 1, hi)

\* Array.prototype.join('') of a list of strings
Flatten(list) == FlattenRange(list, 1, Len(list))

\* the characters of s at the positions where keep is TRUE
KeepMasked(s, keep) ==
  Flatten([k \in 1..Len(s) |-> IF keep[k] THEN <<s[k]>> ELSE <<>>])

\* transliterate(text): rules[char] || char, so a letter whose replacement is ''
\* stays as it is
Transliterate(text) ==
  Flatten([k \in 1..Len(text) |->
             IF IsCyrillic(text[k]) /\ Rules[text[k]] # <<>> THEN Rules[text[k]]
             ELSE <<text[k]>>])

\* s without the characters of the set `strip` at its two ends
TrimChars(s, strip) ==
  LET inner == {k \in 1..Len(s) : s[k] \notin strip}
  IN  IF inner = {} THEN <<>>
      ELSE SubSeq(s, CHOOSE k \in inner : \A m \in inner : k <= m,
                     CHOOSE k \in inner : \A m \in inner : m <= k)

\* String.prototype.trim on a text that may hold line breaks
TrimWhitespace(s) == TrimChars(s, {" ", "\t", "\n"})

\* .replace(/\s+/g, ' ')
CollapseWhitespace(s) ==
  KeepMasked([k \in 1..Len(s) |-> IF IsWhitespace(s[k]) THEN " " ELSE s[k]],
             [k \in 1..Len(s) |-> ~(IsWhitespace(s[k]) /\ k > 1 /\ IsWhitespace(s[k - 1]))])

\* String.prototype.substring(0, to)
Substring(s, to) == SubSeq(s, 1, Min(to, Len(s)))

\* IMAGE_PROCESSING_CONFIG.ALT_TAG_MAX_LENGTH
ALT_TAG_MAX_LENGTH == 125
\* IMAGE_PROCESSING_CONFIG.FILENAME_MAX_LENGTH
FILENAME_MAX_LENGTH == 80
\* .substring(0, 50) of the synthesized file names
SYNTH_NAME_CUT == 50

\* izobrazhenie, foto, kartinka
StopWords ==
  {<<"ru_i", "ru_z", "ru_o", "ru_b", "ru_r", "ru_a", "ru_zh", "ru_e", "ru_n", "ru_i",
     "ru_e">>,
   <<"ru_f", "ru_o", "ru_t", "ru_o">>,
   <<"ru_k", "ru_a", "ru_r", "ru_t", "ru_i", "ru_n", "ru_k", "ru_a">>}

\* \b before position i (1..Len(s)+1): exactly one of the characters at i - 1
\* and at i is a word character; outside the string there is none
WordBoundary(s, i) ==
  (i > 1 /\ IsWordChar(s[i - 1])) # (i <= Len(s) /\ IsWordChar(s[i]))

\* /\b(...|...|...)\b/i matches the stop word w at position i of s
MatchesAt(s, i, w) ==
  /\ i + Len(w) - 1 <= Len(s)
  /\ ToLowerCase(SubSeq(s, i, i + Len(w) - 1)) = w
  /\ WordBoundary(s, i)
  /\ WordBoundary(s, i + Len(w))

\* .replace(/\b(izobrazhenie|foto|kartinka)\b/gi, ''): two matches never overlap,
\* a match being followed by a word character and beginning after one
StripStopWords(s) ==
  KeepMasked(s, [k \in 1..Len(s) |->
                   ~\E w \in StopWords :
                      \E i \in 1..k : k < i + Len(w) /\ MatchesAt(s, i, w)])

\* " - izobrazhenie "
AltInfix ==
  <<" ", "-", " ", "ru_i", "ru_z", "ru_o", "ru_b", "ru_r", "ru_a", "ru_zh", "ru_e",
    "ru_n", "ru_i", "ru_e", " ">>

\* String(n) for the image numbers 1..19
NumberText(n) == IF n < 10 THEN <<Digits[n + 1]>> ELSE <<"1", Digits[n - 9]>>

\* `${productName} - izobrazhenie ${n}`
SynthAltText(productName, n) == productName \o AltInfix \o NumberText(n)

\* .replace(/[^a-z0-9]/g, '-')
ReplaceOthers(s) ==
  [k \in 1..Len(s) |->
     IF s[k] \in Range(AsciiLower) \cup Range(Digits) THEN s[k] ELSE "-"]

\* transliterate(`${productName}-${n}`).toLowerCase().replace(/[^a-z0-9]/g, '-')
SynthNameText(productName, n) ==
  ReplaceOthers(ToLowerCase(Transliterate(productName \o <<"-">> \o NumberText(n))))

\* FALLBACK_ALT_TAG.replace('{productName}', productName): "Izobrazhenie tovara ..."
FallbackAltTag(productName) ==
  <<"RU_I", "ru_z", "ru_o", "ru_b", "ru_r", "ru_a", "ru_zh", "ru_e", "ru_n", "ru_i",
    "ru_e", " ", "ru_t", "ru_o", "ru_v", "ru_a", "ru_r", "ru_a", " ">> \o productName

\* Date.now() as text
Timestamp == <<"1", "7", "0", "0", "0", "0", "0", "0", "0", "0", "0", "0", "0">>

\* FALLBACK_FILENAME.replace('{timestamp}', Date.now())
FallbackFilename ==
  <<"p", "r", "o", "d", "u", "c", "t", "-", "i", "m", "a", "g", "e", "-">> \o Timestamp

\* validateAltTag(altTag, productName)
ValidateAltTag(altTag, productName) ==
  IF altTag = <<>> THEN FallbackAltTag(productName)
  ELSE LET collapsed == CollapseWhitespace(TrimWhitespace(altTag))
           limited == IF Len(collapsed) > ALT_TAG_MAX_LENGTH
                      THEN Substring(collapsed, ALT_TAG_MAX_LENGTH - 3) \o <<".", ".", ".">>
                      ELSE collapsed
       IN  TrimWhitespace(StripStopWords(limited))

\* parts.length > 1 ? parts.slice(0, -1).join('.') : filename
WithoutExtension(filename) ==
  LET dots == {k \in 1..Len(filename) : filename[k] = "."}
  IN  IF dots = {} THEN filename
      ELSE SubSeq(filename, 1, (CHOOSE k \in dots : \A m \in dots : m <= k) - 1)

\* .replace(/-+/g, '-')
CollapseHyphens(s) ==
  KeepMasked(s, [k \in 1..Len(s) |-> ~(s[k] = "-" /\ k > 1 /\ s[k - 1] = "-")])

\* validateSeoFilename(filename)
ValidateSeoFilename(filename) ==
  IF filename = <<>> THEN FallbackFilename
  ELSE LET lower == ToLowerCase(WithoutExtension(filename))
           cleaned == [k \in 1..Len(lower) |->
                         IF lower[k] \in Range(AsciiLower) \cup Range(Digits) \cup {"-"}
                         THEN lower[k] ELSE "-"]
           stripped == TrimChars(CollapseHyphens(cleaned), {"-"})
           name == IF Len(stripped) > FILENAME_MAX_LENGTH
                   THEN Substring(stripped, FILENAME_MAX_LENGTH) ELSE stripped
       IN  IF name = <<>> THEN FallbackFilename ELSE name

(***************************************************************************)
(* The tags of one image on the three paths of the description stage       *)
(***************************************************************************)
\* n times the character c
Repeat(c, n) == [k \in 1..n |-> c]

\* "P"; "Stol" in Cyrillic; "(x)"; "Obyekt" in Cyrillic, with a hard sign;
\* 49 and 130 letters
ProductNames ==
  {<<"P">>,
   <<"RU_S", "ru_t", "ru_o", "ru_l">>,
   <<"(", "x", ")">>,
   <<"RU_O", "ru_b", "ru_hard", "ru_e", "ru_k", "ru_t">>,
   Repeat("a", 49),
   Repeat("a", 130)}

\* what a reply can hold as altTag: nothing; padded words; "foto tovara" and
\* "Foto" in Cyrillic; a stop word between Latin letters; 130 letters; 121
\* letters, a blank and more letters; plain words
RawAltTags ==
  {<<>>,
   <<" ", " ">> \o <<"r", "e", "d">> \o <<" ", "\t", " ">> \o <<"c", "h", "a", "i", "r">> \o <<"\n">>,
   <<"ru_f", "ru_o", "ru_t", "ru_o", " ", "ru_t", "ru_o", "ru_v", "ru_a", "ru_r", "ru_a">>,
   <<"RU_F", "ru_o", "ru_t", "ru_o">>,
   <<"a", "ru_f", "ru_o", "ru_t", "ru_o", "b">>,
   Repeat("a", 130),
   Repeat("a", 121) \o <<" ">> \o Repeat("b", 10),
   <<"r", "e", "d", " ", "c", "h", "a", "i", "r">>}

\* what a reply can hold as seoFilename: nothing; "Red Chair.JPG"; "a.b.c";
\* hyphens only; 79 letters, a hyphen and more; "chair-1"; "stul.jpg" with a
\* Cyrillic name
RawFilenames ==
  {<<>>,
   <<"R", "e", "d", " ", "C", "h", "a", "i", "r", ".", "J", "P", "G">>,
   <<"a", ".", "b", ".", "c">>,
   <<"-", "-", "-">>,
   Repeat("a", 79) \o <<"-", "b", "c">>,
   <<"c", "h", "a", "i", "r", "-", "1">>,
   <<"ru_s", "ru_t", "ru_u", "ru_l", ".", "j", "p", "g">>}

\* the number of the image inside its batch
ImageNumbers == {1, 10}

TagArgs ==
  [productName : ProductNames, altTag : RawAltTags, seoFilename : RawFilenames,
   n : ImageNumbers]

InitTags ==
  /\ product = Product(Url("a"), Empty, Empty)
  /\ settings = [c \in Credentials |-> TRUE]
  /\ pc = "start"
  /\ allImageUrls = <<>>
  /\ imagesToProcess = <<>>
  /\ allResults = <<>>
  /\ groupLog = <<>>
  /\ enhancedImages = <<>>
  /\ finalResults = <<>>
  /\ faults = 0
  /\ sheet = NoSheet
  /\ args \in TagArgs
  /\ ret = <<>>

\* what the tag actions leave alone
TagsFrame ==
  UNCHANGED <<product, settings, allImageUrls, imagesToProcess, allResults, groupLog,
              enhancedImages, finalResults, faults, sheet, args>>

\* processOpenAIOriginals without an assistant id: the tags of image n
TagsUnconfigured ==
  /\ pc = "start"
  /\ args # <<>>
  /\ ret' = [path |-> "unconfigured",
             altTag |-> SynthAltText(args.productName, args.n),
             seoFilename |-> SynthNameText(args.productName, args.n)]
  /\ pc' = "returned"
  /\ TagsFrame

\* processOpenAIOriginals, catch (groupError), its outer catch and the fallback
\* loops of parseAssistantBatchResponse: the tags of image n
TagsFallback ==
  /\ pc = "start"
  /\ args # <<>>
  /\ ret' = [path |-> "fallback",
             altTag |-> SynthAltText(args.productName, args.n),
             seoFilename |->
               Substring(SynthNameText(args.productName, args.n), SYNTH_NAME_CUT)]
  /\ pc' = "returned"
  /\ TagsFrame

\* `product-${n}`
DefaultFilename(n) == <<"p", "r", "o", "d", "u", "c", "t", "-">> \o NumberText(n)

\* parseAssistantBatchResponse, the callback of parsed.results.map for entry n
TagsValidated ==
  /\ pc = "start"
  /\ args # <<>>
  /\ ret' = [path |-> "validated",
             altTag |->
               ValidateAltTag(IF args.altTag # <<>> THEN args.altTag
                              ELSE SynthAltText(args.productName, args.n),
                              args.productName),
             seoFilename |->
               ValidateSeoFilename(IF args.seoFilename # <<>> THEN args.seoFilename
                                   ELSE DefaultFilename(args.n))]
  /\ pc' = "returned"
  /\ TagsFrame

NextTags == TagsUnconfigured \/ TagsFallback \/ TagsValidated

SpecTags == InitTags /\ [][NextTags]_vars

(***************************************************************************)
(* One call of a run answered with an error status                         *)
(***************************************************************************)
\* IMAGE_PROCESSING_CONFIG.RETRY_ATTEMPTS
RETRY_ATTEMPTS == 3
\* IMAGE_PROCESSING_CONFIG.RETRY_DELAYS, ms
RETRY_DELAYS == <<1000, 3000, 10000>>

\* the status codes a service refuses a call with
ErrorCodes == {"401", "429", "500", "503"}

\* the UrlFetchApp.fetch calls one image meets on its way through the run
DescriptionSites == {"thread", "message", "run"}
CallSites == DescriptionSites \cup {"submit", "download", "shrink", "webp", "upload"}

\* the response code each call site compares with
ExpectedCode(site) == IF site \in {"submit", "shrink"} THEN "201" ELSE "200"

\* the code the service answers the call of `site` for image `index` with
CodeAt(site, index) ==
  IF args.site = site /\ (site \in DescriptionSites \/ args.unit = index)
  THEN args.code ELSE ExpectedCode(site)

\* what a call site does with the answer: one UrlFetchApp.fetch, its response
\* code compared once, no sleep and no second fetch after a refusal
CallTrace(code, expected) ==
  [fetches |-> <<code>>, delays |-> <<>>, accepted |-> code = expected]

InitCalls ==
  /\ product = Product(OriginalTwo, Empty, Empty)
  /\ settings = [c \in Credentials |-> TRUE]
  /\ pc = "start"
  /\ allImageUrls = <<>>
  /\ imagesToProcess = <<>>
  /\ allResults = <<>>
  /\ groupLog = <<>>
  /\ enhancedImages = <<>>
  /\ finalResults = <<>>
  /\ faults = 0
  /\ sheet = NoSheet
  /\ args \in [site : CallSites, code : ErrorCodes, unit : 1..2]
  /\ ret = <<>>

\* the trace of the refused call once the run has made it
Traced(site, index) ==
  IF args.site = site /\ (site \in DescriptionSites \/ args.unit = index)
  THEN CallTrace(args.code, ExpectedCode(site)) ELSE ret

\* processOpenAIOriginals: the only sub-batch of the run; a call after a
\* refused one is not made
DescribeCalls ==
  /\ pc = "describe"
  /\ LET batch == Slice(imagesToProcess, 0, BATCH_SIZE)
         thread == CodeAt("thread", 1)
         message == IF thread = "200" THEN CodeAt("message", 1) ELSE NotCalled
         run == IF message = "200"
                THEN [code |-> CodeAt("run", 1), pending |-> 0, final |-> "completed",
                      hasMessage |-> TRUE]
                ELSE NoRun
         reply == IF RunAssistantAnalysis(run)
                  THEN [kind |-> "json", entries |-> Len(batch), blank |-> FALSE]
                  ELSE NoReply
         out == GroupOutcome(1, 0, Len(batch), thread, message, run, reply)
     IN  /\ groupLog' = Append(groupLog,
              [ok |-> out.ok, kind |-> out.kind, images |-> batch,
               from |-> 1, count |-> Len(out.pushed), threads |-> 1,
               slept |-> FALSE])
         /\ ret' = IF thread # "200" THEN Traced("thread", 1)
                   ELSE IF message # "200" THEN Traced("message", 1)
                   ELSE Traced("run", 1)
         /\ IF out.threw
            THEN Caught /\ UNCHANGED allResults
            ELSE /\ allResults' = out.pushed
                 /\ pc' = "enhance"
                 /\ UNCHANGED finalResults
  /\ UNCHANGED <<product, settings, allImageUrls, imagesToProcess, enhancedImages,
                 faults, sheet, args>>

\* processReplicateWithFallback: the unit of the next image
EnhanceCalls ==
  /\ pc = "enhance"
  /\ LET index == Len(enhancedImages) + 1
         submit == CodeAt("submit", index)
         job == [pending |-> 0, final |-> "succeeded", hasOutput |-> TRUE, throwsAt |-> 0]
         unit == ReplicateUnit(imagesToProcess[index], submit,
                               IF submit = "201" THEN job ELSE NoJob)
     IN  /\ ret' = Traced("submit", index)
         /\ IF unit.threw
            THEN Caught /\ UNCHANGED enhancedImages
            ELSE /\ enhancedImages' = Append(enhancedImages, unit.value)
                 /\ pc' = IF index = Len(imagesToProcess) THEN "finish" ELSE "enhance"
                 /\ UNCHANGED finalResults
  /\ UNCHANGED <<product, settings, allImageUrls, imagesToProcess, allResults,
                 groupLog, faults, sheet, args>>

\* processUnifiedWebPOptimization: the unit of the next image
FinishCalls ==
  /\ pc = "finish"
  /\ LET index == Len(finalResults) + 1
         download == CodeAt("download", index)
         shrink == IF download = "200" THEN CodeAt("shrink", index) ELSE NotCalled
         webp == IF shrink = "201" THEN CodeAt("webp", index) ELSE NotCalled
         conv == [download |-> download, shrink |-> shrink, webp |-> webp]
         upload == IF UnifiedWebPConversion(conv)
                   THEN [code |-> CodeAt("upload", index),
                         success |-> CodeAt("upload", index) = "200"]
                   ELSE NoUpload
     IN  /\ ret' = IF download # "200" THEN Traced("download", index)
                   ELSE IF shrink # "201" THEN Traced("shrink", index)
                   ELSE IF webp # "200" THEN Traced("webp", index)
                   ELSE Traced("upload", index)
         /\ finalResults' =
              Append(finalResults,
                     OptimizeUnit(enhancedImages[index], AnalysisFor(allResults, index),
                                  conv, upload))
         /\ pc' = IF index = Len(enhancedImages) THEN "returned" ELSE "finish"
  /\ UNCHANGED <<product, settings, allImageUrls, imagesToProcess, allResults,
                 groupLog, enhancedImages, faults, sheet, args>>

NextCalls == Locate \/ DescribeCalls \/ EnhanceCalls \/ FinishCalls

SpecCalls == InitCalls /\ [][NextCalls]_vars

(***************************************************************************)
(* The polling loops, one iteration at a time                              *)
(***************************************************************************)
\* Utilities.sleep(1000) of both loops, ms
POLL_SLEEP == 1000

\* the runs of the description stage and runs that finish on the last polls
\* the ceiling allows
PollRuns ==
  Runs \cup
    {[code |-> "200", pending |-> p, final |-> "completed", hasMessage |-> TRUE] :
       p \in {AssistantMaxAttempts - 1, AssistantMaxAttempts}}

\* the values of maxWaitSeconds the loop is explored with
WaitCeilings == {1, 3, ReplicateMaxWait}

PollArgs ==
  [kind : {"run"}, run : PollRuns]
    \cup [kind : {"job"}, job : Jobs, maxWaitSeconds : WaitCeilings]

\* the locals of a loop before its first iteration
LoopStart(status) ==
  [status |-> status, attempts |-> 0, polls |-> 0, sleeps |-> 0, slept |-> {},
   result |-> "none"]

InitPoll ==
  /\ product = Product(Url("a"), Empty, Empty)
  /\ settings = [c \in Credentials |-> TRUE]
  /\ pc = "start"
  /\ allImageUrls = <<>>
  /\ imagesToProcess = <<>>
  /\ allResults = <<>>
  /\ groupLog = <<>>
  /\ enhancedImages = <<>>
  /\ finalResults = <<>>
  /\ faults = 0
  /\ sheet = NoSheet
  /\ args \in PollArgs
  /\ ret = <<>>

PollFrame ==
  UNCHANGED <<product, settings, allImageUrls, imagesToProcess, allResults, groupLog,
              enhancedImages, finalResults, faults, sheet, args>>

\* the loop of runAssistantAnalysis without its attempt ceiling
AssistantNoCeiling(attempts) == FALSE

\* runAssistantAnalysis: if (attempts >= maxAttempts) throw
AssistantCeiling(attempts) == attempts >= AssistantMaxAttempts

\* runAssistantAnalysis: the run is created; let status = run.status
RunCreate ==
  /\ pc = "start"
  /\ args.kind = "run"
  /\ IF args.run.code = "200"
     THEN /\ ret' = LoopStart(RunStatusAt(args.run, 0))
          /\ pc' = "poll"
     ELSE /\ ret' = [LoopStart("none") EXCEPT !.result = "run failed"]
          /\ pc' = "returned"
  /\ PollFrame

\* runAssistantAnalysis: one iteration of the while loop
AssistantPoll ==
  /\ pc = "poll"
  /\ args.kind = "run"
  /\ IsPending(ret.status)
  /\ LET attempts == ret.attempts + 1
         timeout == AssistantCeiling(attempts)
     IN  /\ ret' = [ret EXCEPT !.sleeps = @ + 1,
                               !.slept = @ \cup {POLL_SLEEP},
                               !.polls = @ + 1,
                               !.status = RunStatusAt(args.run, attempts),
                               !.attempts = attempts,
                               !.result = IF timeout THEN "timeout" ELSE @]
         /\ pc' = IF timeout THEN "returned" ELSE "poll"
  /\ PollFrame

\* runAssistantAnalysis after the loop: the status check and the reply message
AssistantAnswer ==
  /\ pc = "poll"
  /\ args.kind = "run"
  /\ ~IsPending(ret.status)
  /\ ret' = [ret EXCEPT !.result = IF ret.status # "completed" THEN "run error"
                                   ELSE IF args.run.hasMessage THEN "reply"
                                   ELSE "no message"]
  /\ pc' = "returned"
  /\ PollFrame

\* waitForReplicateResult: let attempts = 0
WaitStart ==
  /\ pc = "start"
  /\ args.kind = "job"
  /\ ret' = LoopStart("none")
  /\ pc' = "poll"
  /\ PollFrame

\* waitForReplicateResult: one iteration of the while loop
ReplicatePoll ==
  /\ pc = "poll"
  /\ args.kind = "job"
  /\ ret.attempts < args.maxWaitSeconds
  /\ LET n == ret.polls + 1
         status == JobStatusAt(args.job, n)
     IN  IF args.job.throwsAt = n
         THEN /\ ret' = [ret EXCEPT !.polls = n, !.result = "exception"]
              /\ pc' = "returned"
         ELSE IF status = "succeeded" /\ args.job.hasOutput
         THEN /\ ret' = [ret EXCEPT !.polls = n, !.status = status,
                                    !.result = "success"]
              /\ pc' = "returned"
         ELSE IF status = "failed"
         THEN /\ ret' = [ret EXCEPT !.polls = n, !.status = status,
                                    !.result = "replicate_failed"]
              /\ pc' = "returned"
         ELSE /\ ret' = [ret EXCEPT !.polls = n, !.status = status,
                                    !.sleeps = @ + 1,
                                    !.slept = @ \cup {POLL_SLEEP},
                                    !.attempts = @ + 1]
              /\ pc' = "poll"
  /\ PollFrame

\* waitForReplicateResult after the loop: return { success: false, reason: 'timeout' }
ReplicateTimeout ==
  /\ pc = "poll"
  /\ args.kind = "job"
  /\ ret.attempts >= args.maxWaitSeconds
  /\ ret' = [ret EXCEPT !.result = "timeout"]
  /\ pc' = "returned"
  /\ PollFrame

NextPoll ==
  \/ RunCreate
  \/ AssistantPoll
  \/ AssistantAnswer
  \/ WaitStart
  \/ ReplicatePoll
  \/ ReplicateTimeout

SpecPoll == InitPoll /\ [][NextPoll]_vars

\* Apps Script runs a function to its end: a loop that can take its next step
\* takes it
SpecPollFair == SpecPoll /\ WF_vars(NextPoll)

(***************************************************************************)
(* The finisher unit of one image with the size of the converted asset     *)
(***************************************************************************)
\* quickWebPOptimization: the size band 150..400 KB
MIN_SIZE_KB == 150
MAX_SIZE_KB == 400
\* unifiedWebPConversion: resize: { method: "fit", width: 3000, height: 3000 }
FIXED_BOX == 3000

\* what the conversion call answers as the size of the WebP asset, KB
AssetSizes == {100, 149, 150, 275, 400, 401, 900}

\* a conversion whose three calls succeed
GoodConversion == [download |-> "200", shrink |-> "201", webp |-> "200"]

InitSize ==
  /\ product = Product(Url("a"), Empty, Empty)
  /\ settings = [c \in Credentials |-> TRUE]
  /\ pc = "start"
  /\ allImageUrls = <<>>
  /\ imagesToProcess = <<>>
  /\ allResults = <<>>
  /\ groupLog = <<>>
  /\ enhancedImages = <<>>
  /\ finalResults = <<>>
  /\ faults = 0
  /\ sheet = NoSheet
  /\ args \in [img : EnhancementOutcomes, sizeKB : AssetSizes, upload : Uploads]
  /\ ret = <<>>

SizeFrame ==
  UNCHANGED <<product, settings, allImageUrls, imagesToProcess, allResults, groupLog,
              enhancedImages, finalResults, faults, sheet, args>>

\* unifiedWebPConversion: one conversion with the fixed bounding box; sizeKB is
\* computed and returned, nothing compares it with a threshold
ConvertUnit ==
  /\ pc = "start"
  /\ args # <<>>
  /\ ret' = [boxes |-> <<FIXED_BOX>>, sizeKB |-> args.sizeKB, hosted |-> FALSE,
             record |-> <<>>]
  /\ pc' = "converted"
  /\ SizeFrame

\* processUnifiedWebPOptimization: the upload that follows webpResult.success
\* and the record of the image
HostUnit ==
  /\ pc = "converted"
  /\ LET record == OptimizeUnit(args.img, UnconfiguredTags(1)[1], GoodConversion,
                                args.upload)
     IN  ret' = [ret EXCEPT !.record = record,
                            !.hosted = UploadToImgBB(args.upload, args.img.processed) # <<>>]
  /\ pc' = "returned"
  /\ SizeFrame

NextSize == ConvertUnit \/ HostUnit

SpecSize == InitSize /\ [][NextSize]_vars

(***************************************************************************)
(* The description stage with or without the OpenAI API key                *)
(***************************************************************************)
InitKeys ==
  /\ product \in Products
  /\ settings \in SettingsSet
  /\ pc = "start"
  /\ allImageUrls = <<>>
  /\ imagesToProcess = <<>>
  /\ allResults = <<>>
  /\ groupLog = <<>>
  /\ enhancedImages = <<>>
  /\ finalResults = <<>>
  /\ faults = 0
  /\ sheet = NoSheet
  /\ args \in [openaiApiKey : BOOLEAN]
  /\ ret = [calls |-> 0]

\* what the analysis service answers to a sub-batch of n images: a request
\* that carries `Bearer ` and no key is refused at the first call
KeyedGroupEnvs(n) ==
  IF args.openaiApiKey THEN GroupEnvs(n)
  ELSE {<<"401", NotCalled, NoRun, NoReply>>}

\* the UrlFetchApp.fetch calls of one sub-batch up to the creation of the run
GroupCalls(thread, message) ==
  1 + (IF thread = "200" THEN 1 ELSE 0) + (IF message = "200" THEN 1 ELSE 0)

\* processOpenAIOriginals: one iteration of the for loop; the branch before the
\* loop looks at settings.openaiAltAssistantId only
DescribeKeyedGroup ==
  /\ pc = "describe"
  /\ settings.openaiAltAssistantId
  /\ LET i == BATCH_SIZE * Len(groupLog)
         batch == Slice(imagesToProcess, i, i + BATCH_SIZE)
         groupNumber == (i \div BATCH_SIZE) + 1
         last == i + BATCH_SIZE >= Len(imagesToProcess)
     IN  \E env \in KeyedGroupEnvs(Len(batch)) :
           LET out == GroupOutcome(groupNumber, i, Len(batch), env[1], env[2],
                                   env[3], env[4])
           IN  /\ groupLog' = Append(groupLog,
                    [ok |-> out.ok, kind |-> out.kind, images |-> batch,
                     from |-> Len(allResults) + 1, count |-> Len(out.pushed),
                     threads |-> 1, slept |-> out.ok /\ ~last])
               /\ ret' = [calls |-> ret.calls + GroupCalls(env[1], env[2])]
               /\ allResults' = allResults \o out.pushed
               /\ pc' = IF last THEN "enhance" ELSE "describe"
  /\ UNCHANGED <<product, settings, allImageUrls, imagesToProcess, enhancedImages,
                 finalResults, faults, sheet, args>>

NextKeys == Locate \/ DescribeUnconfigured \/ DescribeKeyedGroup

SpecKeys == InitKeys /\ [][NextKeys]_vars

(***************************************************************************)
(* The enhancer with its calls counted                                     *)
(***************************************************************************)
InitPass ==
  /\ product \in UnitProducts
  /\ settings \in SettingsSet
  /\ pc = "enhance"
  /\ allImageUrls = CombineAllImages(product.originalImages, product.supplierImages,
                                     product.additionalImages)
  /\ imagesToProcess = ImagesToProcess(allImageUrls)
  /\ allResults = UnconfiguredTags(Len(imagesToProcess))
  /\ groupLog = <<>>
  /\ enhancedImages = <<>>
  /\ finalResults = <<>>
  /\ faults = 0
  /\ sheet = NoSheet
  /\ args = <<>>
  /\ ret = [submissions |-> 0, polls |-> 0]

\* processReplicateWithFallback with a token: the unit of the next image, its
\* prediction POST and the status polls of waitForReplicateResult
EnhanceCountedUnit ==
  /\ pc = "enhance"
  /\ settings.replicateToken
  /\ LET index == Len(enhancedImages) + 1
     IN  \E env \in JobEnvs :
           LET submit == env[1]
               job == env[2]
               unit == ReplicateUnit(imagesToProcess[index], submit, job)
           IN  /\ ret' = [submissions |-> ret.submissions + 1,
                          polls |-> ret.polls + (IF submit = "201"
                                                 THEN ReplicateResults[job].polls
                                                 ELSE 0)]
               /\ enhancedImages' = Append(enhancedImages, unit.value)
               /\ pc' = IF index = Len(imagesToProcess) THEN "finish" ELSE "enhance"
  /\ UNCHANGED <<product, settings, allImageUrls, imagesToProcess, allResults,
                 groupLog, finalResults, faults, sheet, args>>

NextPass == EnhanceUnconfigured \/ EnhanceCountedUnit

SpecPass == InitPass /\ [][NextPass]_vars

\* showFinalProcessingResults: finalResults.filter(r => r.confidence >= 7).length
WebpOptimized(results) ==
  Cardinality({n \in DOMAIN results : results[n].confidence >= 7})

(***************************************************************************)
(* makeInsalesRequest: the retry loop around one InSales API request       *)
(***************************************************************************)

\* const maxRetries = 3
maxRetries == 3

\* what one UrlFetchApp.fetch can give: a response code, or an exception
InsalesAnswers == {"200", "201", "429", "404", "500", "throw"}

\* the text of a response: JSON, text that JSON.parse rejects, or blank
InsalesBodies == {"json", "text", "blank"}

\* Math.min(1000 * Math.pow(2, attempt), 10000)
RateLimitDelay(attempt) == Min(1000 * 2^attempt, 10000)

\* Utilities.sleep(1000 * attempt) in catch (fetchError)
ErrorDelay(attempt) == 1000 * attempt

\* the value returned for a 200/201 response
ParsedResponse(body) ==
  CASE body = "json" -> "json"
    [] body = "text" -> "text"
    [] OTHER -> "null"

InitInsales ==
  /\ product = Product(Empty, Empty, Empty)
  /\ settings = [c \in Credentials |-> TRUE]
  /\ pc = "request"
  /\ allImageUrls = <<>>
  /\ imagesToProcess = <<>>
  /\ allResults = <<>>
  /\ groupLog = <<>>
  /\ enhancedImages = <<>>
  /\ finalResults = <<>>
  /\ faults = 0
  /\ sheet = NoSheet
  /\ args \in [credentials : BOOLEAN,
               answers : [1..maxRetries -> InsalesAnswers],
               body : InsalesBodies]
  /\ ret = [attempt |-> 0, fetches |-> 0, slept |-> <<>>, outcome |-> "running",
            value |-> "none"]

InsalesFrame ==
  UNCHANGED <<product, settings, allImageUrls, imagesToProcess, allResults, groupLog,
              enhancedImages, finalResults, faults, sheet, args>>

\* makeInsalesRequest up to the loop: the credentials, the URL, the options
InsalesPrepare ==
  /\ pc = "request"
  /\ IF args.credentials
     THEN /\ pc' = "attempts"
          /\ ret' = ret
     ELSE /\ pc' = "left"
          /\ ret' = [ret EXCEPT !.outcome = "thrown", !.value = "credentials"]
  /\ InsalesFrame

\* one iteration of for (attempt = 1; attempt <= maxRetries; attempt++), with
\* the end of the loop when it was the last one: after the loop the function
\* body ends without a return statement
InsalesAttempt ==
  /\ pc = "attempts"
  /\ LET attempt == ret.attempt + 1
         answer == args.answers[attempt]
         last == attempt = maxRetries
         fetched == [ret EXCEPT !.attempt = attempt, !.fetches = @ + 1]
     IN  CASE answer \in {"200", "201"} ->
                /\ ret' = [fetched EXCEPT !.outcome = "returned",
                                          !.value = ParsedResponse(args.body)]
                /\ pc' = "left"
           [] answer = "429" ->
                /\ ret' = [fetched EXCEPT
                             !.slept = Append(@, RateLimitDelay(attempt)),
                             !.outcome = IF last THEN "returned" ELSE @,
                             !.value = IF last THEN "undefined" ELSE @]
                /\ pc' = IF last THEN "left" ELSE "attempts"
           [] answer = "404" ->
                /\ ret' = [fetched EXCEPT !.outcome = "returned", !.value = "null"]
                /\ pc' = "left"
           [] OTHER ->
                /\ ret' = IF last
                          THEN [fetched EXCEPT !.outcome = "thrown", !.value = answer]
                          ELSE [fetched EXCEPT
                                  !.slept = Append(@, ErrorDelay(attempt))]
                /\ pc' = IF last THEN "left" ELSE "attempts"
  /\ InsalesFrame

NextInsales == InsalesPrepare \/ InsalesAttempt

SpecInsales == InitInsales /\ [][NextInsales]_vars

(***************************************************************************)
(* transliterate applied to short texts                                    *)
(***************************************************************************)

\* the longest text given to transliterate
MaxText == 3

\* the characters of the longer texts: the two signs, a letter with a two-letter
\* and one with a one-letter replacement, a Latin letter, a space
TextChars == {"ru_hard", "RU_SOFT", "ru_zh", "RU_YA", "ru_a", "N", " "}

\* every letter of the rules table on its own, and the texts over TextChars
Texts ==
  {<<c>> : c \in DOMAIN Rules} \cup UNION {[1..n -> TextChars] : n \in 0..MaxText}

InitTranslit ==
  /\ product = Product(Empty, Empty, Empty)
  /\ settings = [c \in Credentials |-> TRUE]
  /\ pc = "text"
  /\ allImageUrls = <<>>
  /\ imagesToProcess = <<>>
  /\ allResults = <<>>
  /\ groupLog = <<>>
  /\ enhancedImages = <<>>
  /\ finalResults = <<>>
  /\ faults = 0
  /\ sheet = NoSheet
  /\ args \in [text : Texts]
  /\ ret = <<>>

\* const result = transliterate(testCase.input)
TransliterateText ==
  /\ pc = "text"
  /\ ret' = [result |-> Transliterate(args.text)]
  /\ pc' = "transliterated"
  /\ UNCHANGED <<product, settings, allImageUrls, imagesToProcess, allResults,
                 groupLog, enhancedImages, finalResults, faults, sheet, args>>

SpecTranslit == InitTranslit /\ [][TransliterateText]_vars

(***************************************************************************)
(* Properties                                                              *)
(***************************************************************************)
\* analyzeImageSimple has returned
Terminal == pc \in {"returned", "caught"}

\* the URLs a result record of the image url can carry
UrlsOf(url) == {url, UpscaledUrl(url), HostedUrl(url), HostedUrl(UpscaledUrl(url))}

\* the first n elements
Prefix(list, n) == SubSeq(list, 1, Min(n, Len(list)))

\* C1: the array analyzeImageSimple returns is never empty; a run that ends
\* without a top-level exception returns exactly one record per image of the
\* capped batch, record i made from image i, whatever stages failed; a run that
\* located no image returns the single synthetic record.
C1_OutputShape ==
  Terminal =>
    /\ Len(finalResults) >= 1
    /\ pc = "returned" =>
         /\ imagesToProcess = Prefix(allImageUrls, MaxImages)
         /\ Len(finalResults) = Len(imagesToProcess)
         /\ \A i \in 1..Len(finalResults) :
              finalResults[i].processedImageUrl \in UrlsOf(imagesToProcess[i])
    /\ allImageUrls = <<>> =>
         /\ pc = "caught"
         /\ Len(finalResults) = 1
         /\ finalResults[1].confidence = 1

\* a full batch returned although a description reply was short and, for some
\* image, neither the enhancement nor the conversion and hosting succeeded
C1_Witness ==
  /\ pc = "returned"
  /\ Len(finalResults) = MaxImages
  /\ Len(allResults) < MaxImages
  /\ \E i \in 1..Len(finalResults) : finalResults[i].confidence = 4
  /\ \E i \in 1..Len(finalResults) : finalResults[i].confidence = 8

\* C2: every record analyzeImageSimple returns has a non-empty
\* processedImageUrl, the catastrophic path included.
C2_NeverEmptyUrl ==
  Terminal =>
    \A i \in 1..Len(finalResults) : finalResults[i].processedImageUrl # <<>>

\* the valid URLs a source string yields
TierUrls(source) == Range(ParseUrls(source))

Located == pc # "start"

ChosenSource ==
  IF TierUrls(product.additionalImages) # {} THEN product.additionalImages
  ELSE IF TierUrls(product.supplierImages) # {} THEN product.supplierImages
       ELSE product.originalImages

\* the position of the first entry of source that is url once trimmed
FirstOccurrence(source, url) ==
  LET pieces == Split(source)
  IN  CHOOSE k \in 1..Len(pieces) :
        /\ Trim(pieces[k]) = url
        /\ \A m \in 1..(k - 1) : Trim(pieces[m]) # url

\* C4: the list combineAllImages returns holds no URL twice (compared
\* case-sensitively), holds only trimmed entries that start with "http", and
\* keeps them in the order of their first occurrence in the chosen source.
C4_DedupOrder ==
  Located =>
    /\ \A i, j \in 1..Len(allImageUrls) : i # j => allImageUrls[i] # allImageUrls[j]
    /\ \A i \in 1..Len(allImageUrls) :
         /\ StartsWithHttp(allImageUrls[i])
         /\ ~IsSpace(allImageUrls[i][1])
         /\ ~IsSpace(allImageUrls[i][Len(allImageUrls[i])])
         /\ \E k \in 1..Len(Split(ChosenSource)) :
              Trim(Split(ChosenSource)[k]) = allImageUrls[i]
    /\ \A i, j \in 1..Len(allImageUrls) :
         i < j => FirstOccurrence(ChosenSource, allImageUrls[i])
                    < FirstOccurrence(ChosenSource, allImageUrls[j])

\* a padded URL repeated in the chosen source comes out once, trimmed
C4_Witness ==
  /\ Located
  /\ Len(ParseUrls(ChosenSource)) = 2
  /\ Len(allImageUrls) = 1
  /\ \E k \in 1..Len(Split(ChosenSource)) :
       /\ Split(ChosenSource)[k] # allImageUrls[1]
       /\ Trim(Split(ChosenSource)[k]) = allImageUrls[1]

\* the images the description stage worked on: those of its sub-batches, or,
\* when it synthesized every outcome up front, one per outcome
DescribedCount ==
  IF groupLog = <<>> THEN Len(allResults)
  ELSE LET total[k \in 0..Len(groupLog)] ==
             IF k = 0 THEN 0 ELSE total[k - 1] + Len(groupLog[k].images)
       IN  total[Len(groupLog)]

Described == pc \in {"enhance", "finish", "returned"}

Enhanced == pc \in {"finish", "returned"}

\* every stage that has finished worked on exactly the first 10 located URLs
FirstTenThroughStages ==
  /\ Located /\ allImageUrls # <<>> => imagesToProcess = Prefix(allImageUrls, MaxImages)
  /\ Described =>
       /\ DescribedCount = MaxImages
       /\ \A k \in 1..Len(groupLog) :
            groupLog[k].images =
              SubSeq(allImageUrls, BATCH_SIZE * (k - 1) + 1,
                     Min(BATCH_SIZE * k, MaxImages))
  /\ Enhanced =>
       [i \in 1..Len(enhancedImages) |-> enhancedImages[i].original]
         = Prefix(allImageUrls, MaxImages)
  /\ pc = "returned" =>
       \A i \in 1..Len(finalResults) :
         finalResults[i].processedImageUrl \in UrlsOf(allImageUrls[i])

C6_RunsWheneverLocatable ==
  \A k \in 1..Len(sheet.queue) :
    (/\ sheet.status[k] \in {"processed", "error"}
     /\ CombineAllImages(sheet.queue[k].originalImages,
                         sheet.queue[k].supplierImages,
                         sheet.queue[k].additionalImages) # <<>>)
      => sheet.ran[k]

\* C7: processOpenAIOriginals returns exactly one outcome per input image,
\* whatever the analysis capability replies.
C7_OnePerImage ==
  Described => Len(allResults) = Len(imagesToProcess)

\* the number of sub-batches of n images
GroupCount(n) == (n + BATCH_SIZE - 1) \div BATCH_SIZE

\* the outcomes sub-batch k pushed
Segment(k) ==
  SubSeq(allResults, groupLog[k].from, groupLog[k].from + groupLog[k].count - 1)

\* C8: a failing sub-batch of the description stage affects only itself: its
\* images get synthesized outcomes, every other sub-batch is still attempted
\* and keeps its model-derived outcomes, and the stage returns normally.
C8_GroupIsolation ==
  (pc \notin {"idle", "start", "describe"} /\ groupLog # <<>>) =>
       /\ settings.openaiAltAssistantId
       /\ Len(groupLog) = GroupCount(Len(imagesToProcess))
       /\ \A k \in 1..Len(groupLog) :
            LET size == Len(groupLog[k].images)
            IN  /\ groupLog[k].from + groupLog[k].count - 1 <= Len(allResults)
                /\ groupLog[k].kind = "failed" =>
                     Segment(k) = GroupFallback(BATCH_SIZE * (k - 1), size)
                /\ groupLog[k].kind \in {"text", "badjson"} =>
                     Segment(k) = LocalFallback(size)
                /\ groupLog[k].kind = "json" =>
                     \A j \in 2..groupLog[k].count :
                       Segment(k)[j].altTag = ModelAlt(k, j)

\* the first of two sub-batches failed, the second was answered for each image
C8_Witness ==
  /\ pc = "enhance"
  /\ Len(groupLog) = 2
  /\ groupLog[1].kind = "failed"
  /\ groupLog[2].kind = "json"
  /\ groupLog[2].count = Len(groupLog[2].images)
  /\ allResults[Len(allResults)].altTag = ModelAlt(2, groupLog[2].count)

\* C9: every outcome of processReplicateWithFallback has a non-empty processed
\* URL; an enhanced outcome carries the output reference of its finished job
\* and no error; an outcome that is not enhanced carries the original URL.
C9_EnhancementOutcome ==
  \A i \in 1..Len(enhancedImages) :
    LET o == enhancedImages[i]
    IN  /\ o.processed # <<>>
        /\ o.wasEnhanced => o.processed = UpscaledUrl(o.original) /\ o.error = "none"
        /\ ~o.wasEnhanced => o.processed = o.original
        /\ ~settings.replicateToken => ~o.wasEnhanced

\* outcomes of a rejected submission, of a job that did not succeed and of a
\* successful job side by side
C9_Witness ==
  /\ Enhanced
  /\ \E i, j, k \in 1..Len(enhancedImages) :
       /\ enhancedImages[i].error = "Replicate failed"
       /\ enhancedImages[j].error = "Replicate processing failed"
       /\ enhancedImages[k].wasEnhanced

\* C10: a failing unit of the resolution enhancer never keeps the units of the
\* other images from being evaluated: every image gets its own outcome.
C10_UnitIsolation ==
  /\ Len(enhancedImages) <= Len(imagesToProcess)
  /\ \A i \in 1..Len(enhancedImages) : enhancedImages[i].original = imagesToProcess[i]
  /\ Enhanced => Len(enhancedImages) = Len(imagesToProcess)
  /\ pc = "caught" => Len(enhancedImages) \in {0, Len(imagesToProcess)}
  /\ pc = "enhance" /\ settings.replicateToken =>
       Len(enhancedImages) < Len(imagesToProcess)

\* the unit of an earlier image failed, the unit of a later image succeeded
C10_Witness ==
  /\ Enhanced
  /\ \E i, j \in 1..Len(enhancedImages) :
       /\ i < j
       /\ enhancedImages[i].error # "none"
       /\ enhancedImages[j].wasEnhanced

\* every settled element of a stage output belongs to the image of its position
ElementsInPlace ==
  /\ \A k \in 1..Len(enhancedImages) :
       enhancedImages[k].settled =>
         /\ enhancedImages[k].unit = k
         /\ enhancedImages[k].value.original = imagesToProcess[k]
  /\ \A k \in 1..Len(finalResults) :
       finalResults[k].settled =>
         /\ finalResults[k].unit = k
         /\ finalResults[k].value.processedImageUrl \in UrlsOf(imagesToProcess[k])
         /\ finalResults[k].value.altTag = allResults[k].altTag

\* a step changes at most one element of a stage output, never a settled one
OwnSlotOnly(old, new) ==
  Len(old) = Len(new) =>
    /\ \A k \in 1..Len(old) : old[k].settled => new[k] = old[k]
    /\ Cardinality({k \in 1..Len(old) : new[k] # old[k]}) <= 1

\* C11: in the enhancer and in the finisher element i of the stage output
\* belongs to image i for every order in which the per-image units complete,
\* and a unit that completes writes only its own element.
C11_OrderKept ==
  /\ []ElementsInPlace
  /\ [][/\ OwnSlotOnly(enhancedImages, enhancedImages')
        /\ OwnSlotOnly(finalResults, finalResults')]_vars

\* the finisher's unit of the last image has completed while the unit of the
\* first image, whose enhancement had failed, is still running
C11_Witness ==
  /\ pc = "finish"
  /\ Len(finalResults) >= 2
  /\ ~finalResults[1].settled
  /\ finalResults[Len(finalResults)].settled
  /\ finalResults[Len(finalResults)].value.confidence = 8
  /\ enhancedImages[1].value.error # "none"
  /\ enhancedImages[Len(enhancedImages)].value.wasEnhanced

\* the position of a stage in the order locate, describe, enhance, finish, assemble
StageRank(p) ==
  CASE p = "start" -> 0
    [] p = "describe" -> 1
    [] p = "enhance" -> 2
    [] p = "finish" -> 3
    [] p = "returned" -> 4
    [] OTHER -> 5

\* processOpenAIOriginals has returned its list for the whole batch
DescriptionReturned ==
  \/ groupLog = <<>> /\ allResults = CriticalFallbackTags(Len(imagesToProcess))
  \/ /\ ~settings.openaiAltAssistantId
     /\ groupLog = <<>>
     /\ allResults = UnconfiguredTags(Len(imagesToProcess))
  \/ /\ settings.openaiAltAssistantId
     /\ Len(groupLog) = GroupCount(Len(imagesToProcess))

\* no stage has produced anything before the stage before it was complete
StagesComplete ==
  /\ (allResults # <<>> \/ groupLog # <<>>) =>
       imagesToProcess # <<>> /\ imagesToProcess = Prefix(allImageUrls, MaxImages)
  /\ enhancedImages # <<>> => DescriptionReturned
  /\ (finalResults # <<>> /\ pc # "caught") =>
       DescriptionReturned /\ Len(enhancedImages) = Len(imagesToProcess)
  /\ pc = "returned" => Len(finalResults) = Len(imagesToProcess)

\* the run only moves forward, and the output of a stage is final once the
\* next stage works
StagesForward ==
  /\ StageRank(pc') >= StageRank(pc)
  /\ enhancedImages # <<>> => allResults' = allResults /\ groupLog' = groupLog
  /\ finalResults # <<>> => enhancedImages' = enhancedImages

\* C12: one run of analyzeImageSimple goes through locate, describe, enhance,
\* finish and assemble strictly in that order: a stage produces nothing before
\* the stage before it has returned its complete list for the whole batch.
C12_StrictStages ==
  /\ []StagesComplete
  /\ [][StagesForward]_vars

\* six images described in two sub-batches, the second after a failure of the
\* first, then enhanced and finished
C12_Witness ==
  /\ pc = "returned"
  /\ Len(imagesToProcess) = 6
  /\ Len(groupLog) = 2
  /\ ~groupLog[1].ok
  /\ groupLog[2].ok
  /\ \A i \in 1..Len(finalResults) : finalResults[i].confidence = 8

\* C15: without a TinyPNG or an ImgBB key every record carries the URL of the
\* enhancement stage, with confidence 5 for an enhanced image and 3 otherwise.
C15_UnconfiguredFinisher ==
  (pc = "returned" /\ (~settings.tinypngKey \/ ~settings.imgbbKey)) =>
    \A i \in 1..Len(finalResults) :
      /\ finalResults[i].processedImageUrl = enhancedImages[i].processed
      /\ finalResults[i].confidence = IF enhancedImages[i].wasEnhanced THEN 5 ELSE 3

\* C16: without a Replicate token every record of the final result has
\* confidence 5 or below, whatever compression and hosting did.
C16_UpscalingCap ==
  (pc = "returned" /\ ~settings.replicateToken) =>
    \A i \in 1..Len(finalResults) : finalResults[i].confidence <= 5

\* every capability is configured and no call of the run failed
AllSucceeded ==
  /\ \A c \in Credentials : settings[c]
  /\ faults = 0

\* C17: with 12 located URLs and every capability configured and succeeding
\* the run returns exactly 10 records, record i with confidence 8 and the URL
\* the hosting capability returned for image i, all of them different.
C17_TwelveAllSucceed ==
  (Terminal /\ Len(allImageUrls) = 12 /\ AllSucceeded) =>
    /\ pc = "returned"
    /\ Len(finalResults) = 10
    /\ \A i \in 1..Len(finalResults) :
         /\ finalResults[i].confidence = 8
         /\ finalResults[i].processedImageUrl = HostedUrl(UpscaledUrl(allImageUrls[i]))
         /\ finalResults[i].altTag = ModelAlt(((i - 1) \div BATCH_SIZE) + 1,
                                              ((i - 1) % BATCH_SIZE) + 1)
    /\ \A i, j \in 1..Len(finalResults) :
         i # j => finalResults[i].processedImageUrl # finalResults[j].processedImageUrl

\* the run over 12 located URLs in which nothing failed has returned
C17_Witness ==
  /\ pc = "returned"
  /\ AllSucceeded
  /\ Len(allImageUrls) = 12
  /\ Len(enhancedImages) = 10
  /\ \A k \in 1..Len(groupLog) : groupLog[k].ok /\ groupLog[k].count = BATCH_SIZE

\* compression and conversion succeeded for the image of case c
Converted(c) == c.kind = "finished" /\ c.configured /\ UnifiedWebPConversion(c.conv)

\* hosting succeeded for the image of case c
Hosted(c) == Converted(c) /\ UploadToImgBB(c.upload, c.img.processed) # <<>>

\* enhancement succeeded for the image of case c
WasEnhanced(c) == c.kind = "finished" /\ c.img.wasEnhanced

\* the number of stages (enhancement, compression/conversion, hosting) that
\* succeeded for the image of case c
StagesSucceeded(c) ==
  (IF WasEnhanced(c) THEN 1 ELSE 0) + (IF Converted(c) THEN 1 ELSE 0)
    + (IF Hosted(c) THEN 1 ELSE 0)

\* C13: of any two result records, the one of the image for which more stages
\* succeeded has a confidence that is not lower.
C13_Monotonic ==
  ret # <<>> =>
    (StagesSucceeded(args[1]) > StagesSucceeded(args[2])
       => ret[1].confidence >= ret[2].confidence)

\* the outcome class of case c: 4 fully succeeded, 3 enhanced only (finisher
\* unavailable or failed), 2 all-failed fallback, 1 catastrophic, 0 none of them
OutcomeClass(c) ==
  IF c.kind = "catastrophic" THEN 1
  ELSE IF WasEnhanced(c) /\ Hosted(c) THEN 4
  ELSE IF WasEnhanced(c) /\ ~Hosted(c) THEN 3
  ELSE IF ~WasEnhanced(c) /\ ~Converted(c) THEN 2
  ELSE 0

\* C14: across the outcome classes fully succeeded, enhanced only, all-failed
\* fallback and catastrophic the confidences are strictly decreasing.
C14_ClassOrder ==
  ret # <<>> =>
    LET a == OutcomeClass(args[1])
        b == OutcomeClass(args[2])
    IN  (a > 0 /\ b > 0 /\ a > b) => ret[1].confidence > ret[2].confidence

\* an enhanced image whose upload failed next to an image of a run without
\* finisher keys for which no stage succeeded: the closest two classes get
C14_Witness ==
  /\ ret # <<>>
  /\ OutcomeClass(args[1]) = 3
  /\ args[1].configured
  /\ Converted(args[1])
  /\ OutcomeClass(args[2]) = 2
  /\ ~args[2].configured
  /\ ret[1].confidence = ret[2].confidence + 1

\* the tags of one image have been produced
Tagged == pc = "returned" /\ args # <<>> /\ ret # <<>>

\* C18: every altTag the description stage puts out has at most 125
\* characters, on the validated, the fallback and the unconfigured path, for
\* every product name.
C18_AltTagLength ==
  Tagged => Len(ret.altTag) <= ALT_TAG_MAX_LENGTH

\* the text matches [a-z0-9-]+
IsSlug(s) ==
  /\ s # <<>>
  /\ \A k \in 1..Len(s) : s[k] \in Range(AsciiLower) \cup Range(Digits) \cup {"-"}

\* C19: every seoFilename the description stage puts out is non-empty, matches
\* [a-z0-9-]+, neither begins nor ends with a hyphen and has at most 80
\* characters, on every path and for every product name.
C19_SeoFilenameShape ==
  Tagged =>
    /\ IsSlug(ret.seoFilename)
    /\ ret.seoFilename[1] # "-"
    /\ ret.seoFilename[Len(ret.seoFilename)] # "-"
    /\ Len(ret.seoFilename) <= FILENAME_MAX_LENGTH

\* a letter or a digit, Latin or Cyrillic
IsLetterOrDigit(c) == IsWordChar(c) \/ IsCyrillic(c)

\* the stop word w stands in s as a word of its own, in any letter case
HoldsWord(s, w) ==
  \E i \in 1..Len(s) :
    /\ i + Len(w) - 1 <= Len(s)
    /\ ToLowerCase(SubSeq(s, i, i + Len(w) - 1)) = w
    /\ i > 1 => ~IsLetterOrDigit(s[i - 1])
    /\ i + Len(w) <= Len(s) => ~IsLetterOrDigit(s[i + Len(w)])

\* C20: for a non-empty input validateAltTag returns a text without leading or
\* trailing whitespace, without two whitespace characters in a row, without a
\* stop word standing as a word, and of at most 125 characters.
C20_ValidateAltTag ==
  (Tagged /\ ret.path = "validated" /\ args.altTag # <<>>) =>
    LET out == ret.altTag
    IN  /\ out # <<>> => ~IsWhitespace(out[1]) /\ ~IsWhitespace(out[Len(out)])
        /\ \A k \in 2..Len(out) : ~(IsWhitespace(out[k - 1]) /\ IsWhitespace(out[k]))
        /\ \A w \in StopWords : ~HoldsWord(out, w)
        /\ Len(out) <= ALT_TAG_MAX_LENGTH

\* C21: for every input validateSeoFilename returns a non-empty text of the
\* characters [a-z0-9-] only (so without a dot or an extension), that neither
\* begins nor ends with a hyphen and has at most 80 characters, inputs longer
\* than 80 characters included.
C21_ValidateSeoFilename ==
  (Tagged /\ ret.path = "validated" /\ args.seoFilename # <<>>) =>
    LET name == ret.seoFilename
    IN  /\ IsSlug(name)
        /\ "." \notin Range(name)
        /\ name[1] # "-" /\ name[Len(name)] # "-"
        /\ Len(name) <= FILENAME_MAX_LENGTH

\* the refused call of the run has been made
CallMade == args # <<>> /\ ret # <<>> /\ "fetches" \in DOMAIN ret

\* C22: a call answered with 401 is made once and ends the whole run: the
\* stage does not turn it into a fallback for the image or the sub-batch, the
\* run stops in the catch of the orchestrator.
C22_AuthFatal ==
  (CallMade /\ args.code = "401") =>
    /\ Len(ret.fetches) = 1
    /\ pc = "caught"

\* a strictly increasing list of delays
Increasing(delays) == \A k \in 1..(Len(delays) - 1) : delays[k] < delays[k + 1]

\* C23: a call answered with 429 or 5xx is made again, with increasing delay,
\* until RETRY_ATTEMPTS fetches have been made, before its unit falls back.
C23_TransientRetried ==
  (CallMade /\ args.code \in {"429", "500", "503"}) =>
    /\ Len(ret.fetches) = RETRY_ATTEMPTS
    /\ Len(ret.delays) = RETRY_ATTEMPTS - 1
    /\ Increasing(ret.delays)

\* the number of status polls a loop may make
PollCeiling == IF args.kind = "run" THEN AssistantMaxAttempts ELSE args.maxWaitSeconds

\* the loop is inside its ceiling, it has slept 1 s between any two polls, and
\* at the ceiling with the job still unfinished it has ended with a timeout
PollsBounded ==
  (args # <<>> /\ ret # <<>> /\ "polls" \in DOMAIN ret) =>
    /\ ret.polls <= PollCeiling
    /\ ret.slept \subseteq {POLL_SLEEP}
    /\ ret.sleeps >= ret.polls - 1
    /\ ret.sleeps <= ret.polls
    /\ (pc = "returned" /\ ret.polls = PollCeiling
          /\ ret.status \in {"queued", "in_progress", "processing", "canceled"}) =>
         ret.result = "timeout"

\* C24: both polling loops end.  runAssistantAnalysis makes at most 30 status
\* polls and waitForReplicateResult at most maxWaitSeconds, with a 1 s sleep
\* between two polls, and a job still unfinished at the ceiling ends the loop
\* with a timeout.
C24_PollingTerminates == []PollsBounded /\ <>(pc = "returned")

\* a loop has used up its ceiling and timed out
C24_Witness ==
  /\ pc = "returned"
  /\ "polls" \in DOMAIN ret
  /\ ret.result = "timeout"
  /\ ret.polls = PollCeiling
  /\ ret.polls >= AssistantMaxAttempts
  /\ ret.sleeps >= ret.polls - 1

\* C26: a run that reports completed, in the run response or in any poll up to
\* the last one the ceiling allows, has its reply fetched and returned; a
\* timeout is reported only for a run still queued or in progress at the
\* ceiling.
C26_CompletedIsAnswered ==
  (pc = "returned" /\ args # <<>> /\ args.kind = "run" /\ args.run.code = "200"
     /\ args.run.hasMessage) =>
    /\ (ret.status = "completed" /\ ret.polls <= AssistantMaxAttempts) =>
         ret.result = "reply"
    /\ ret.result = "timeout" => IsPending(ret.status)

\* the images of the sub-batches attempted so far, one after the other
RECURSIVE GroupImages(_)
GroupImages(k) ==
  IF k = 0 THEN <<>> ELSE GroupImages(k - 1) \o groupLog[k].images

OwnAltTags(i) ==
  LET k == ((i - 1) \div BATCH_SIZE) + 1
      j == ((i - 1) % BATCH_SIZE) + 1
  IN  {ModelAlt(k, j), SynthAlt(i), SynthAlt(j)}

OwnFilenames(i) ==
  LET k == ((i - 1) \div BATCH_SIZE) + 1
      j == ((i - 1) % BATCH_SIZE) + 1
  IN  {ModelName(k, j), SynthName(i), SynthNameCut(i), SynthNameCut(j), <<"product", j>>}

\* C27: in the assembled result record i carries the altTag and seoFilename the
\* description stage produced for the image at position i, from that image's
\* own sub-batch, whatever number of entries the replies hold.
C27_TagsOfOwnImage ==
  pc = "returned" =>
    \A i \in 1..Len(finalResults) :
      /\ finalResults[i].altTag \in OwnAltTags(i)
      /\ finalResults[i].seoFilename \in OwnFilenames(i)

\* the sub-batches answered with synthesized outcomes
FallbackGroups == {k \in 1..Len(groupLog) : groupLog[k].kind \in {"failed", "text", "badjson"}}

\* the positions of allResults that hold a synthesized outcome
FallbackPositions ==
  IF groupLog = <<>> THEN 1..Len(allResults)
  ELSE UNION {groupLog[k].from..(groupLog[k].from + groupLog[k].count - 1) :
                k \in FallbackGroups}

\* C28: a synthesized fallback outcome of the description stage (sub-batch
\* error, reply without parseable JSON, capability unconfigured) is numbered
\* with the 1-based position of its image in the whole batch, so two different
\* images of a run never get equal fallback outcomes.
C28_FallbackIndex ==
  pc \in {"enhance", "finish", "returned"} =>
    /\ \A k \in FallbackGroups :
         \A j \in 1..groupLog[k].count :
           Segment(k)[j].altTag = SynthAlt(BATCH_SIZE * (k - 1) + j)
    /\ groupLog = <<>> =>
         \A i \in 1..Len(allResults) : allResults[i].altTag = SynthAlt(i)
    /\ \A p, q \in FallbackPositions : p # q => allResults[p] # allResults[q]

\* C29: a record of the finisher has confidence 8 exactly when compression,
\* conversion and hosting all succeeded for its image and processedImageUrl is
\* the URL hosting returned; every other record of the finisher carries the
\* enhancement-stage URL of its image.
C29_EightIffHosted ==
  ret # <<>> =>
    \A n \in 1..2 :
      args[n].kind = "finished" =>
        /\ ret[n].confidence = 8 <=>
             (Hosted(args[n])
                /\ ret[n].processedImageUrl = HostedUrl(args[n].img.processed))
        /\ ret[n].confidence # 8 =>
             ret[n].processedImageUrl = args[n].img.processed

\* a hosted image next to an enhanced one whose conversion succeeded and
\* whose upload failed
C29_Witness ==
  /\ ret # <<>>
  /\ Hosted(args[1])
  /\ ret[1].confidence = 8
  /\ ret[1].processedImageUrl = HostedUrl(args[1].img.processed)
  /\ args[2].configured
  /\ Converted(args[2]) /\ ~Hosted(args[2])
  /\ WasEnhanced(args[2])
  /\ ret[2].confidence = 6
  /\ ret[2].processedImageUrl = UpscaledUrl(Url("a"))

\* C30: a record of the final result has confidence 6 or 7 only if the format
\* conversion of its image succeeded.
C30_SixSevenConverted ==
  ret # <<>> =>
    \A n \in 1..2 : ret[n].confidence \in {6, 7} => Converted(args[n])

\* C31: before the asset of an image is hosted, a conversion result under
\* 150 KB has been resubmitted with a larger bounding box and one over 400 KB
\* with a smaller bounding box.
C31_SizeBandCorrection ==
  (pc = "returned" /\ args # <<>> /\ ret # <<>> /\ "boxes" \in DOMAIN ret
     /\ ret.hosted) =>
    /\ ret.sizeKB < MIN_SIZE_KB =>
         Len(ret.boxes) >= 2 /\ ret.boxes[2] > ret.boxes[1]
    /\ ret.sizeKB > MAX_SIZE_KB =>
         Len(ret.boxes) >= 2 /\ ret.boxes[2] < ret.boxes[1]

\* C32: the description stage pauses after every sub-batch attempt that is
\* followed by another one, whether the attempt succeeded or failed, and does
\* not pause after the last one.
C32_PauseBetweenGroups ==
  \A k \in 1..Len(groupLog) :
    groupLog[k].slept <=> (BATCH_SIZE * k < Len(imagesToProcess))

\* C33: with the OpenAI API key or the assistant id missing the description
\* stage makes no external call and returns a synthesized outcome for every
\* image.
C33_UnconfiguredNoCall ==
  (pc = "enhance" /\ args # <<>> /\ "openaiApiKey" \in DOMAIN args
     /\ (~args.openaiApiKey \/ ~settings.openaiAltAssistantId)) =>
    /\ ret.calls = 0
    /\ Len(allResults) = Len(imagesToProcess)
    /\ \A i \in 1..Len(allResults) : allResults[i].altTag = SynthAlt(i)

\* C34: without a Replicate token processReplicateWithFallback submits no
\* job and polls nothing, and returns for every image, in input order, an
\* outcome that is not enhanced and whose processed URL is the original URL.
C34_UnconfiguredPassThrough ==
  (pc = "finish" /\ ~settings.replicateToken /\ ret # <<>>
     /\ "submissions" \in DOMAIN ret) =>
    /\ ret.submissions = 0
    /\ ret.polls = 0
    /\ Len(enhancedImages) = Len(imagesToProcess)
    /\ \A i \in 1..Len(enhancedImages) :
         /\ ~enhancedImages[i].wasEnhanced
         /\ enhancedImages[i].original = imagesToProcess[i]
         /\ enhancedImages[i].processed = imagesToProcess[i]

\* three images passed through without a token
C34_Witness ==
  /\ pc = "finish"
  /\ ~settings.replicateToken
  /\ ret # <<>> /\ "submissions" \in DOMAIN ret
  /\ ret.submissions = 0
  /\ Len(imagesToProcess) = 3
  /\ Len(enhancedImages) = 3
  /\ enhancedImages[3].processed = Url("c")

\* C35: the optimized count of a run, the number of its records with a
\* confidence of 7 or more, is the number of its images for which compression,
\* conversion and hosting all succeeded; an image that was only enhanced is
\* not counted.
C35_OptimizedCount ==
  (ret # <<>> /\ args[1].kind = "finished" /\ args[2].kind = "finished"
     /\ args[1].configured = args[2].configured) =>
    WebpOptimized(ret) = Cardinality({n \in 1..2 : Hosted(args[n])})


\* the terminal statuses of a product's row
TerminalStatuses == {"processed", "error"}

FailedRun ==
  /\ pc = "caught"
  /\ Len(finalResults) = 1
  /\ finalResults[1].confidence = 1
  /\ finalResults[1].processedImageUrl = <<>>

\* C37: a product whose run ended in the Failed state is given the status
\* 'Ошибка' ("error") and counted in stats.errors, never 'Обработано'
\* ("processed") and stats.processed.
C37_FailedRunIsError ==
  [][(FailedRun /\ FinishProduct) =>
       /\ sheet'.status[sheet.idx] = "error"
       /\ sheet'.errors = sheet.errors + 1
       /\ sheet'.processed = sheet.processed]_vars


\* C38: makeInsalesRequest makes at most 3 fetches, and it leaves its retry
\* loop only by returning what a 200/201 or 404 attempt gave or by throwing;
\* when every attempt was answered 429 the caller gets an error.
C38_RetryLoopCloses ==
  pc = "left" =>
    /\ ret.fetches <= maxRetries
    /\ ret.outcome \in {"returned", "thrown"}
    /\ ret.outcome = "returned" =>
         /\ ret.value \in {"json", "text", "null"}
         /\ args.answers[ret.attempt] \in {"200", "201", "404"}
    /\ (args.credentials /\ \A n \in 1..maxRetries : args.answers[n] = "429") =>
         ret.outcome = "thrown"


\* every character of text replaced by its entry of the rules table when it
\* is a letter of the table, kept otherwise
RuleMapped(text) ==
  Flatten([k \in 1..Len(text) |->
             IF IsCyrillic(text[k]) THEN Rules[text[k]] ELSE <<text[k]>>])

\* C39: transliterate replaces every Russian letter, in both cases and the
\* hard and soft signs included (they become the empty string), by its entry of
\* the rules table and keeps every other character, so that no Russian letter
\* is left in the output.
C39_NoRussianLetterLeft ==
  pc = "transliterated" =>
    /\ ret.result = RuleMapped(args.text)
    /\ \A k \in 1..Len(ret.result) : ~IsCyrillic(ret.result[k])

====
